---- MODULE Spec2Model ----
(***************************************************************************)
(* Model of the answer-equivalence checker of the tutoring backend:        *)
(*   utils/latex_utils.py  (extract_math_expr, clean_latex,                *)
(*                          latex_to_sympy, the check_* strategies,        *)
(*                          are_equivalent)                                *)
(*   routers/answer.py     (check_answer)                                  *)
(* and of its content generation with the cache and the weekly quota:      *)
(*   routers/content.py    (_norm, get_cached_topic, save_cached_topic,    *)
(*                          generate_content, stream_content)              *)
(*   auth.py               (get_or_create_subscription, check_usage_limit, *)
(*                          increment_usage)                               *)
(*                                                                         *)
(* A Python str is a sequence of one-character strings.  An Optional is a  *)
(* sequence of length 0 (None) or 1.  A float confidence is an integer     *)
(* number of hundredths.                                                   *)
(*                                                                         *)
(* sympy is modelled on the fragment the inputs can spell: sums (with      *)
(* unary and binary '+') of decimal numbers, identifiers, sums in          *)
(* parentheses, quotients and calls of the functions the rewrites name.  A *)
(* string with two or more '=' could spell a Python comparison ('=='),     *)
(* which sympify evaluates to a boolean; such strings are not drawn.       *)
(***************************************************************************)
EXTENDS Integers, Sequences, FiniteSets, TLC

VARIABLES pc, call, request, fault, locals, response, escaped, inflight,
          service_supabase, subscriptions, generated_topics, now, jobs, history

answerVars == <<pc, call, request, fault, locals, response, escaped, inflight>>
contentVars == <<service_supabase, subscriptions, generated_topics, now, jobs, history>>
vars == <<answerVars, contentVars>>

----------------------------------------------------------------------------
(* Bounds of the model *)

\* longest user_answer / argument string that is drawn
MaxLen == 3

\* number of requests the server handles at the same time
MaxTasks == 2

\* number of content requests, each handled once
MaxJobs == 2

\* the last day the clock reaches
MaxDay == 7

\* the characters strings are drawn from
DOLLAR == "$"
SPACE == " "
NEWLINE == "\n"
Alphabet == {DOLLAR, SPACE, NEWLINE, "1", "x", "+", "="}

Count(s, c) == Cardinality({i \in 1..Len(s) : s[i] = c})

Str == {s \in UNION {[1..n -> Alphabet] : n \in 0..MaxLen} : Count(s, "=") <= 1}

\* reference answers a request may carry besides a copy of the user's answer
References ==
    { <<"1">>, <<"1", "1">>, <<"x">>, <<"1", "+", "x">>,
      <<"x", "=", "1">>, <<"$", "x", "$">>, <<"$", "$", "\n", "x", "\n", "$", "$">>, <<>>,
      <<"x", "=", "x", ">", "=", "1">>, <<"0">> }

\* user answers longer than MaxLen or outside its alphabet: texts of more
\* than one line, comparisons, macros, decimal numbers near 1 and 0, fractions
\* with and without a macro inside, names other than x
LongAnswers ==
    { <<"x", "$", "\n", "$">>, <<"$", "$", "\n", "x", "\n", "$", "$">>,
      <<"x", ">", "=", "1">>,
      <<"1", "\\", "p", "m", "1">>, <<"1", "\\", "p", "m", "1", "=", "x">>,
      <<"1", ".", "0", "0", "0", "0", "0", "0", "0", "0", "0", "5">>,
      <<"1", ".", "0", "0", "0", "0", "0", "0", "0", "0", "1">>,
      <<"0", ".", "9", "9", "9", "9", "9", "9", "9", "9", "9", "5">>,
      <<"0", ".", "9", "9", "9", "9", "9", "9", "9", "9", "9">>,
      <<"0", ".", "0", "0", "0", "0", "0", "0", "0", "0", "1">>,
      <<"\\", "f", "r", "a", "c", "{", "1", "}", "{", "x", "}">>,
      <<"\\", "f", "r", "a", "c", "{", "1", "}", "{", "\\", "s", "q", "r", "t", "{", "x", "}", "}">>,
      <<"\\", "f", "r", "a", "c", "{", "\\", "s", "q", "r", "t", "{", "x", "}", "}", "{", "1", "}">>,
      <<"w">>,
      <<"\\", "t", "h", "e", "t", "a">> }

\* selected_option values (None, or an index)
SelectedOptions == {<<>>, <<0>>, <<1>>, <<11>>}

----------------------------------------------------------------------------
(* Python str and re primitives *)

Min(S) == CHOOSE m \in S : \A k \in S : m <= k
Max(S) == CHOOSE m \in S : \A k \in S : m >= k
MinOr0(S) == IF S = {} THEN 0 ELSE Min(S)

\* characters matched by \s and removed by str.strip()
Whitespace == {SPACE, NEWLINE}

\* s[lo..hi] for the set of positions that are kept, "" when there is none
Between(s, keep) == IF keep = {} THEN <<>> ELSE SubSeq(s, Min(keep), Max(keep))

\* str.strip()
Strip(s) == Between(s, {i \in 1..Len(s) : s[i] \notin Whitespace})

NotWhitespace(c) == c \notin Whitespace

\* re.sub(r"\s+", "", s)
RemoveWhitespace(s) == SelectSeq(s, NotWhitespace)

\* where the text starts once ^\$ has matched or not
AfterLeadingDollar(s) == IF Len(s) >= 1 /\ s[1] = DOLLAR THEN 2 ELSE 1

\* where the text ends once \$$ has matched or not; it cannot match the
\* character ^\$ has consumed
BeforeTrailingDollar(s, a) ==
    IF Len(s) >= a /\ s[Len(s)] = DOLLAR THEN Len(s) - 1 ELSE Len(s)

\* re.sub(r"^\$|\$$", "", s) on a string that does not end in a line break
StripDollar(s) ==
    SubSeq(s, AfterLeadingDollar(s), BeforeTrailingDollar(s, AfterLeadingDollar(s)))

\* the characters '.' matches (no re.DOTALL: everything but a line break)
DotMatches(c) == c # NEWLINE

\* position of the first '$' at or after p, 0 when there is none
NextDollar(s, p) == MinOr0({j \in p..Len(s) : s[j] = DOLLAR})

\* \${1,2}(.*?)\${1,2} matches at i with an opening run of k dollars: the lazy
\* group ends at the first '$' after the opening and must not cross a
\* character '.' does not match
MatchAt(s, i, k) ==
    /\ i + k - 1 <= Len(s)
    /\ \A d \in 0..(k - 1) : s[i + d] = DOLLAR
    /\ NextDollar(s, i + k) # 0
    /\ \A j \in (i + k)..(NextDollar(s, i + k) - 1) : DotMatches(s[j])

\* group 1 of that match
GroupAt(s, i, k) == SubSeq(s, i + k, NextDollar(s, i + k) - 1)

\* the match at position i: the greedy opening \${1,2} tries two dollars
\* before one
GroupOfMatch(s, i) ==
    IF MatchAt(s, i, 2) THEN <<GroupAt(s, i, 2)>> ELSE <<GroupAt(s, i, 1)>>

\* the leftmost of the positions where the pattern matches
LeftmostMatch(s, starts) ==
    IF starts = {} THEN <<>> ELSE GroupOfMatch(s, Min(starts))

\* re.findall(...)[:1]: <<>> when there is no match, <<group>> otherwise
FirstMatch(s) ==
    LeftmostMatch(s, {i \in 1..Len(s) : MatchAt(s, i, 2) \/ MatchAt(s, i, 1)})

----------------------------------------------------------------------------
(* utils/latex_utils.py : normalisation *)

\* matches[0].strip() if matches else latex.strip()
ExtractFrom(latex, matches) ==
    IF matches # <<>> THEN Strip(matches[1]) ELSE Strip(latex)

extract_math_expr(latex) == ExtractFrom(latex, FirstMatch(latex))

clean_latex(latex) == StripDollar(RemoveWhitespace(latex))

----------------------------------------------------------------------------
(* Python int() and str() of an int *)

Digits == {"0", "1", "2", "3", "4", "5", "6", "7", "8", "9"}

DigitVal(c) ==
    CASE c = "0" -> 0 [] c = "1" -> 1 [] c = "2" -> 2 [] c = "3" -> 3
      [] c = "4" -> 4 [] c = "5" -> 5 [] c = "6" -> 6 [] c = "7" -> 7
      [] c = "8" -> 8 [] c = "9" -> 9

DigitChar(d) ==
    CASE d = 0 -> "0" [] d = 1 -> "1" [] d = 2 -> "2" [] d = 3 -> "3"
      [] d = 4 -> "4" [] d = 5 -> "5" [] d = 6 -> "6" [] d = 7 -> "7"
      [] d = 8 -> "8" [] d = 9 -> "9"

AllIn(s, S) == \A i \in 1..Len(s) : s[i] \in S

RECURSIVE DecVal(_)
\* value of a run of decimal digits
DecVal(s) ==
    IF Len(s) = 0 THEN 0
    ELSE 10 * DecVal(SubSeq(s, 1, Len(s) - 1)) + DigitVal(s[Len(s)])

IsSigned(t) == Len(t) >= 1 /\ t[1] \in {"+", "-"}

\* the value of the digits after the sign; <<>> stands for ValueError
SignedVal(negative, digits) ==
    IF Len(digits) = 0 \/ ~AllIn(digits, Digits) THEN <<>>
    ELSE IF negative THEN <<0 - DecVal(digits)>>
    ELSE <<DecVal(digits)>>

IntOfStripped(t) ==
    IF IsSigned(t) THEN SignedVal(t[1] = "-", SubSeq(t, 2, Len(t)))
    ELSE SignedVal(FALSE, t)

\* int(s) for a str: surrounding whitespace is ignored, one sign is allowed,
\* the rest must be decimal digits.  <<>> stands for ValueError, <<n>> for n.
IntOfStr(s) == IntOfStripped(Strip(s))

RECURSIVE NatToStr(_)
NatToStr(n) ==
    IF n < 10 THEN <<DigitChar(n)>>
    ELSE NatToStr(n \div 10) \o <<DigitChar(n % 10)>>

\* str(n) as an f-string field formats it
IntToStr(n) == IF n < 0 THEN <<"-">> \o NatToStr(0 - n) ELSE NatToStr(n)

----------------------------------------------------------------------------
(* sympy on the modelled fragment *)

\* An exception is its class and its text; a computation's outcome is a
\* value or a raised exception.
Exc(cls, text) == [cls |-> cls, text |-> text]
NoExc == Exc("", "")
Returned(v) == [raised |-> FALSE, exc |-> NoExc, val |-> v]
Raised(e, dflt) == [raised |-> TRUE, exc |-> e, val |-> dflt]

\* classes derived from Exception (what "except Exception" catches)
ExceptionClasses ==
    {"ValueError", "TypeError", "SympifyError", "RuntimeError", "MemoryError"}

\* A fault is an exception the environment raises at a site of the
\* computation; NoFault is the run in which nothing unexpected happens.
NoFault == [site |-> "none", exc |-> NoExc]
FaultSites == {"body", "sympify", "evalf", "simplify", "expand"}
Faults ==
    {NoFault} \cup [site : FaultSites,
                    exc : {Exc("RuntimeError", "boom"), Exc("MemoryError", "")}]
FaultAt(f, site) == f.site = site

Abs(n) == IF n < 0 THEN 0 - n ELSE n

\* float: a binary floating-point number of 53 significant bits.  Its
\* magnitude is written in fixed point as limbs of LimbBits bits, most
\* significant first: one limb before the point and FracLimbs after it.
\* Every float between 2^-45 and 2^14 is such a number with at most Precision
\* significant bits.
Precision == 53
LimbBits == 14
FracLimbs == 7
Limbs == 1 + FracLimbs
Width == Limbs * LimbBits

RECURSIVE Pow2(_)
Pow2(n) == IF n = 0 THEN 1 ELSE 2 * Pow2(n - 1)
Base == Pow2(LimbBits)

\* a function on 1..n as the tuple it is
AsTuple(f) == <<>> \o f

ZeroLimbs == AsTuple([i \in 1..Limbs |-> 0])
Float(neg, bits) == [neg |-> neg, bits |-> bits]
FloatZero == Float(FALSE, ZeroLimbs)

\* the bit p of a magnitude, 1 the most significant: its limb, its weight
\* in the limb, its value
LimbOf(p) == (p - 1) \div LimbBits + 1
WeightOf(p) == Pow2(LimbBits - 1 - ((p - 1) % LimbBits))
BitAt(m, p) == (m[LimbOf(p)] \div WeightOf(p)) % 2

RECURSIVE MulFrom(_, _, _)
\* Base times the decimal fraction 0.d: its integer part, then the digits
\* of its fraction
MulFrom(d, i, c) ==
    IF i = 0 THEN <<c>>
    ELSE MulFrom(d, i - 1, (d[i] * Base + c) \div 10) \o <<(d[i] * Base + c) % 10>>

RECURSIVE FracLimbsOf(_, _)
\* the first n limbs of the decimal fraction 0.d
FracLimbsOf(d, n) ==
    IF n = 0 THEN <<>>
    ELSE <<Head(MulFrom(d, Len(d), 0))>>
             \o FracLimbsOf(Tail(MulFrom(d, Len(d), 0)), n - 1)

RECURSIVE FracRest(_, _)
\* what of 0.d lies beyond its first n limbs
FracRest(d, n) ==
    IF n = 0 THEN d ELSE FracRest(Tail(MulFrom(d, Len(d), 0)), n - 1)

RECURSIVE AddFrom(_, _, _, _)
\* the limbs 1..i of a + b, c carried into limb i
AddFrom(a, b, i, c) ==
    IF i = 0 THEN <<>>
    ELSE AddFrom(a, b, i - 1, (a[i] + b[i] + c) \div Base)
             \o <<(a[i] + b[i] + c) % Base>>

RECURSIVE SubFrom(_, _, _, _)
\* the limbs 1..i of a - b for a >= b, c borrowed from limb i
SubFrom(a, b, i, c) ==
    IF i = 0 THEN <<>>
    ELSE SubFrom(a, b, i - 1, IF a[i] - b[i] - c < 0 THEN 1 ELSE 0)
             \o <<(a[i] - b[i] - c + Base) % Base>>

BitsLess(a, b) ==
    \E j \in 1..Limbs : a[j] < b[j] /\ \A m \in 1..(j - 1) : a[m] = b[m]

\* round to nearest, ties to even, at the bit last
RoundUp(m, sticky, last) ==
    /\ BitAt(m, last + 1) = 1
    /\ (sticky \/ BitAt(m, last) = 1 \/ \E j \in (last + 2)..Width : BitAt(m, j) = 1)
Truncate(m, last) ==
    AsTuple([i \in 1..Limbs |->
        IF i < LimbOf(last) THEN m[i]
        ELSE IF i = LimbOf(last) THEN m[i] - (m[i] % WeightOf(last))
        ELSE 0])
RoundAt(m, sticky, last) ==
    IF last >= Width THEN m
    ELSE IF RoundUp(m, sticky, last)
    THEN AddFrom(Truncate(m, last),
                 [i \in 1..Limbs |-> IF i = LimbOf(last) THEN WeightOf(last) ELSE 0],
                 Limbs, 0)
    ELSE Truncate(m, last)
RoundBits(m, sticky) ==
    IF m = ZeroLimbs THEN ZeroLimbs
    ELSE RoundAt(m, sticky, Min({p \in 1..Width : BitAt(m, p) = 1}) + Precision - 1)

\* the float operations: the exact result, rounded
FloatAdd(x, y) ==
    IF x.neg = y.neg
    THEN Float(x.neg, RoundBits(AddFrom(x.bits, y.bits, Limbs, 0), FALSE))
    ELSE IF BitsLess(x.bits, y.bits)
    THEN Float(y.neg, RoundBits(SubFrom(y.bits, x.bits, Limbs, 0), FALSE))
    ELSE IF x.bits = y.bits THEN FloatZero
    ELSE Float(x.neg, RoundBits(SubFrom(x.bits, y.bits, Limbs, 0), FALSE))
FloatSub(x, y) == FloatAdd(x, Float(~y.neg, y.bits))
FloatAbs(x) == Float(FALSE, x.bits)
FloatLt(x, y) ==
    IF x.neg /\ ~y.neg THEN ~(x.bits = ZeroLimbs /\ y.bits = ZeroLimbs)
    ELSE IF ~x.neg /\ y.neg THEN FALSE
    ELSE IF x.neg THEN BitsLess(y.bits, x.bits)
    ELSE BitsLess(x.bits, y.bits)

\* float(k) of an integer, and the float nearest a decimal literal
FromInt(k) == Float(k < 0, <<Abs(k)>> \o SubSeq(ZeroLimbs, 1, FracLimbs))
\* (whole and fraction are the digits of the literal, as numbers)
FromDecimal(whole, fraction) ==
    Float(FALSE,
          RoundBits(<<whole>> \o FracLimbsOf(fraction, FracLimbs),
                    \E i \in 1..Len(fraction) : FracRest(fraction, FracLimbs)[i] # 0))

\* A SymbolicForm of the fragment: a number (an Integer const, or a Float
\* flt) plus identifiers with non-zero integer coefficients (sympy's
\* canonical Add).  A number with a Float in it is a Float.
Form(k, cf) == [const |-> k, flt |-> <<>>, coef |-> cf]
ZeroForm == Form(0, <<>>)

FloatOf(f) == IF f.flt = <<>> THEN FromInt(f.const) ELSE f.flt[1]
IsExact(f, g) == f.flt = <<>> /\ g.flt = <<>>
\* a number that is zero; a Float zero is taken to equal 0, which no verdict
\* rests on: two equal Floats are already equal to expand(s1).equals
IsZero(f) ==
    /\ DOMAIN f.coef = {}
    /\ (IF f.flt = <<>> THEN f.const = 0 ELSE f.flt[1].bits = ZeroLimbs)

CoefOf(f, n) == IF n \in DOMAIN f.coef THEN f.coef[n] ELSE 0

AddForm(f, g) ==
    [const |-> IF IsExact(f, g) THEN f.const + g.const ELSE 0,
     flt |-> IF IsExact(f, g) THEN <<>> ELSE <<FloatAdd(FloatOf(f), FloatOf(g))>>,
     coef |->
         [n \in {m \in DOMAIN f.coef \cup DOMAIN g.coef : CoefOf(f, m) + CoefOf(g, m) # 0}
            |-> CoefOf(f, n) + CoefOf(g, n)]]

SubForm(f, g) ==
    [const |-> IF IsExact(f, g) THEN f.const - g.const ELSE 0,
     flt |-> IF IsExact(f, g) THEN <<>> ELSE <<FloatSub(FloatOf(f), FloatOf(g))>>,
     coef |->
         [n \in {m \in DOMAIN f.coef \cup DOMAIN g.coef : CoefOf(f, m) - CoefOf(g, m) # 0}
            |-> CoefOf(f, n) - CoefOf(g, n)]]

\* A comparison "l > r" or "l >= r" of two forms is a Relational; between
\* two numbers it evaluates to the Boolean true or false.
Rel(op, l, r) == [rel |-> op, lhs |-> l, rhs |-> r]
IsRel(s) == "rel" \in DOMAIN s
BoolForm(b) == Rel(IF b THEN "true" ELSE "false", ZeroForm, ZeroForm)

\* the letters of the identifiers in the inputs; every identifier made of
\* them is a name sympify turns into a Symbol
Letters == {"x", "w", "t", "h", "e", "a"}

\* a decimal integer literal (Python rejects a leading zero before other digits)
IsNumber(seg) ==
    /\ Len(seg) >= 1
    /\ AllIn(seg, Digits)
    /\ (Len(seg) = 1 \/ seg[1] # "0" \/ AllIn(seg, {"0"}))

\* an identifier; none of the alphabet's identifiers is a sympy name, so
\* each becomes a Symbol
IsName(seg) ==
    /\ Len(seg) >= 1
    /\ seg[1] \in Letters
    /\ AllIn(seg, Letters \cup Digits)

\* a decimal literal: digits around one point, at least one digit
IsDecimal(seg) ==
    /\ AllIn(seg, Digits \cup {"."})
    /\ Cardinality({i \in 1..Len(seg) : seg[i] = "."}) = 1
    /\ Len(seg) >= 2

\* a literal with a point is a Float of 53 bits (sympy keeps more bits for
\* a literal of more than 15 digits until evalf rounds it)
DecimalForm(seg, p) ==
    [const |-> 0,
     flt |-> <<FromDecimal(DecVal(SubSeq(seg, 1, p - 1)),
                           [i \in 1..(Len(seg) - p) |-> DigitVal(seg[p + i])])>>,
     coef |-> <<>>]

RECURSIVE SplitAt(_, _, _)
\* the pieces of s between the positions at
SplitAt(s, c, at) ==
    IF at = {} THEN <<s>>
    ELSE <<SubSeq(s, 1, Min(at) - 1)>>
             \o SplitAt(SubSeq(s, Min(at) + 1, Len(s)), c,
                        {i - Min(at) : i \in at \ {Min(at)}})

\* str.split(c): the pieces between the occurrences of c
SplitAll(s, c) == SplitAt(s, c, {i \in 1..Len(s) : s[i] = c})

\* how many parentheses are open after t[i], and the pieces of t between
\* the occurrences of c outside every parenthesis
Depth(t, i) ==
    Cardinality({j \in 1..i : t[j] = "("}) - Cardinality({j \in 1..i : t[j] = ")"})
SplitTop(t, c) == SplitAt(t, c, {i \in 1..Len(t) : t[i] = c /\ Depth(t, i) = 0})

\* t ends with the parenthesis that opens at o
ClosesAt(t, o) ==
    /\ o >= 1 /\ Len(t) >= o + 2 /\ t[Len(t)] = ")"
    /\ Depth(t, Len(t)) = 0
    /\ \A i \in o..(Len(t) - 1) : Depth(t, i) >= 1

\* the functions the rewrites of lines 34-42 call
FuncNames ==
    {<<"s", "q", "r", "t">>, <<"s", "i", "n">>, <<"c", "o", "s">>, <<"t", "a", "n">>,
     <<"l", "o", "g">>}

RECURSIVE IsAtom(_)
\* the last piece of a sum is an atom, every other piece an atom or empty
SumOk(segs) ==
    /\ segs[Len(segs)] # <<>>
    /\ \A i \in 1..Len(segs) : segs[i] = <<>> \/ IsAtom(segs[i])

\* An atom of a sum: a number, a name, a quotient of atoms, a sum in
\* parentheses, or a function applied to one.
IsAtom(t) ==
    \/ IsNumber(t) \/ IsDecimal(t) \/ IsName(t)
    \/ /\ Len(SplitTop(t, "/")) > 1
       /\ \A i \in 1..Len(SplitTop(t, "/")) : IsAtom(SplitTop(t, "/")[i])
    \/ /\ Len(SplitTop(t, "/")) = 1
       /\ \E o \in 1..Len(t) :
            /\ t[o] = "(" /\ ClosesAt(t, o)
            /\ (o = 1 \/ SubSeq(t, 1, o - 1) \in FuncNames)
            /\ SumOk(SplitTop(SubSeq(t, o + 1, Len(t) - 1), "+"))

RECURSIVE SumForms(_)
\* A sum in parentheses has the value of the sum.  A quotient or a function
\* call stands for itself, a term of coefficient 1 like a name: two of them
\* are equal when they are the same text, and each is taken to hold a symbol.
AtomForm(seg) ==
    IF IsNumber(seg) THEN Form(DecVal(seg), <<>>)
    ELSE IF IsDecimal(seg) THEN DecimalForm(seg, CHOOSE p \in 1..Len(seg) : seg[p] = ".")
    ELSE IF seg[1] = "(" /\ ClosesAt(seg, 1)
    THEN SumForms(SplitTop(SubSeq(seg, 2, Len(seg) - 1), "+"))
    ELSE Form(0, [n \in {seg} |-> 1])

SumForms(segs) ==
    IF Len(segs) = 0 THEN ZeroForm
    ELSE IF Head(segs) = <<>> THEN SumForms(Tail(segs))
    ELSE AddForm(AtomForm(Head(segs)), SumForms(Tail(segs)))

\* In the fragment a Python expression is a sum of atoms, each with any
\* number of unary '+' before it: split at '+', the last piece is an atom
\* and every other piece is an atom or empty.  Anything else ('$', '=', a
\* blank, a backslash, a brace, "1x", "") is a syntax error, which sympify
\* raises as SympifyError.
ParseSum(text, segs) ==
    IF SumOk(segs) THEN Returned(SumForms(segs))
    ELSE Raised(Exc("SympifyError", "could not parse"), ZeroForm)

\* s contains pat at i
OccursAt(s, pat, i) ==
    i + Len(pat) - 1 <= Len(s) /\ SubSeq(s, i, i + Len(pat) - 1) = pat
Contains(s, pat) == \E i \in 1..Len(s) : OccursAt(s, pat, i)

\* an expression without a comparison
ParseSide(text) == ParseSum(text, SplitTop(text, "+"))

\* the value of "l op r": a Boolean when both sides are numbers
RelFrom(op, l, r) ==
    IF l.raised THEN l
    ELSE IF r.raised THEN r
    ELSE IF DOMAIN l.val.coef = {} /\ DOMAIN r.val.coef = {}
    THEN Returned(BoolForm(IF op = ">=" THEN ~FloatLt(FloatOf(l.val), FloatOf(r.val))
                           ELSE FloatLt(FloatOf(r.val), FloatOf(l.val))))
    ELSE Returned(Rel(op, l.val, r.val))

\* a text with '>' at g: "l>=r" or "l>r"
ParseRelationAt(text, g) ==
    IF g < Len(text) /\ text[g + 1] = "="
    THEN RelFrom(">=", ParseSide(SubSeq(text, 1, g - 1)),
                       ParseSide(SubSeq(text, g + 2, Len(text))))
    ELSE RelFrom(">", ParseSide(SubSeq(text, 1, g - 1)),
                      ParseSide(SubSeq(text, g + 1, Len(text))))

\* a chained comparison asks for the truth value of a Relational, which
\* raises TypeError
ParseRelation(text, gts) ==
    IF Cardinality(gts) = 1 THEN ParseRelationAt(text, Min(gts))
    ELSE Raised(Exc("TypeError", "cannot determine truth value of Relational"), ZeroForm)

\* sympy.sympify(text).  A '+' directly followed by '/' is a syntax error
\* wherever it stands.
sympify(text, f) ==
    IF FaultAt(f, "sympify") THEN Raised(f.exc, ZeroForm)
    ELSE IF Contains(text, <<"+", "/", "-">>)
    THEN Raised(Exc("SympifyError", "could not parse"), ZeroForm)
    ELSE IF \E i \in 1..Len(text) : text[i] = ">"
    THEN ParseRelation(text, {i \in 1..Len(text) : text[i] = ">"})
    ELSE ParseSide(text)

\* float(s.evalf()): TypeError when the expression has free symbols or is
\* not a number at all
evalf_float(s, f) ==
    IF FaultAt(f, "evalf") THEN Raised(f.exc, FloatZero)
    ELSE IF IsRel(s) THEN Raised(Exc("TypeError", "float() argument must be a string or a number"), FloatZero)
    ELSE IF DOMAIN s.coef # {} THEN Raised(Exc("TypeError", "Cannot convert expression to float"), FloatZero)
    ELSE Returned(FloatOf(s))

\* simplify, expand and factor leave a form of the fragment in its
\* canonical shape; a.equals(b) decides equality of two such forms.  A
\* Relational or Boolean equals only its like; against an expression the
\* comparison is None or a TypeError from the subtraction, in each strategy
\* a result that is not a match.
simplify(s) == s
expand(s) == s
factor(s) == s
equals(a, b) == IF IsRel(a) \/ IsRel(b) THEN a = b ELSE IsZero(SubForm(a, b))

\* simplify(s1 - s2): a Relational or Boolean has no subtraction
Difference(s1, s2, f) ==
    IF IsRel(s1) \/ IsRel(s2)
    THEN Raised(Exc("TypeError", "unsupported operand type(s) for -"), ZeroForm)
    ELSE IF FaultAt(f, "simplify") THEN Raised(f.exc, ZeroForm)
    ELSE Returned(simplify(SubForm(s1, s2)))

\* a sympy call that the environment may make raise
Sympy(site, v, f) ==
    IF FaultAt(f, site) THEN Raised(f.exc, v) ELSE Returned(v)

----------------------------------------------------------------------------
(* utils/latex_utils.py : parsing and the strategies *)

\* "except Exception: return v" around a computation
ExceptException(outcome, v) ==
    IF outcome.raised /\ outcome.exc.cls \in ExceptionClasses
    THEN Returned(v) ELSE outcome

RECURSIVE ReplaceAll(_, _, _)
\* re.sub of a pattern that is a fixed text: every occurrence, left to right
ReplaceAll(s, pat, rep) ==
    IF Len(s) < Len(pat) THEN s
    ELSE IF OccursAt(s, pat, 1)
    THEN rep \o ReplaceAll(SubSeq(s, Len(pat) + 1, Len(s)), pat, rep)
    ELSE <<Head(s)>> \o ReplaceAll(Tail(s), pat, rep)

BACKSLASH == "\\"
PM == <<BACKSLASH, "p", "m">>
FRAC == <<BACKSLASH, "f", "r", "a", "c", "{">>
SQRT == <<BACKSLASH, "s", "q", "r", "t">>

\* the replacement texts r"(\1)/(\2)" and r"(\2)**(1/(\1))"
TwoGroups(g1, g2, root) ==
    IF root THEN <<"(">> \o g2 \o <<")", "*", "*", "(", "1", "/", "(">> \o g1 \o <<")", ")">>
    ELSE <<"(">> \o g1 \o <<")", "/", "(">> \o g2 \o <<")">>

\* where the group ([^c]+) that starts at g ends: the first c after g, or 0
\* when the group would be empty or is not closed
CloseFrom(s, g, c) ==
    IF g > Len(s) \/ s[g] = c THEN 0
    ELSE MinOr0({j \in (g + 1)..Len(s) : s[j] = c})

RECURSIVE SubBraced(_, _, _)
\* re.sub(r"\macro\{([^}]+)\}", r"fn(\1)", s)
SubBraced(s, macro, fn) ==
    IF Len(s) = 0 THEN s
    ELSE IF /\ OccursAt(s, macro \o <<"{">>, 1)
            /\ CloseFrom(s, Len(macro) + 2, "}") # 0
    THEN fn \o <<"(">>
            \o SubSeq(s, Len(macro) + 2, CloseFrom(s, Len(macro) + 2, "}") - 1)
            \o <<")">>
            \o SubBraced(SubSeq(s, CloseFrom(s, Len(macro) + 2, "}") + 1, Len(s)),
                         macro, fn)
    ELSE <<Head(s)>> \o SubBraced(Tail(s), macro, fn)

RECURSIVE SubTwo(_, _, _, _)
\* re.sub of a macro with two groups, the first closed by c and the second
\* by '}': line 33 (\frac{A}{B} to (A)/(B)) when root is FALSE, lines 35-37
\* (\sqrt[N]{A} to (A)**(1/(N))) when it is TRUE.  a is where the first
\* group ends.
SubTwo(s, macro, c, root) ==
    IF Len(s) = 0 THEN s
    ELSE IF /\ OccursAt(s, macro, 1)
            /\ CloseFrom(s, Len(macro) + 1, c) # 0
            /\ CloseFrom(s, Len(macro) + 1, c) < Len(s)
            /\ s[CloseFrom(s, Len(macro) + 1, c) + 1] = "{"
            /\ CloseFrom(s, CloseFrom(s, Len(macro) + 1, c) + 2, "}") # 0
    THEN TwoGroups(SubSeq(s, Len(macro) + 1, CloseFrom(s, Len(macro) + 1, c) - 1),
                   SubSeq(s, CloseFrom(s, Len(macro) + 1, c) + 2,
                          CloseFrom(s, CloseFrom(s, Len(macro) + 1, c) + 2, "}") - 1),
                   root)
            \o SubTwo(SubSeq(s, CloseFrom(s, CloseFrom(s, Len(macro) + 1, c) + 2, "}") + 1,
                             Len(s)),
                      macro, c, root)
    ELSE <<Head(s)>> \o SubTwo(Tail(s), macro, c, root)

\* lines 33-42, in their order
ReplaceBraced(s) ==
    SubBraced(SubBraced(SubBraced(SubBraced(SubBraced(
        SubTwo(SubBraced(SubTwo(s, FRAC, "}", FALSE), SQRT, Tail(SQRT)),
               SQRT \o <<"[">>, "]", TRUE),
        <<BACKSLASH, "s", "i", "n">>, <<"s", "i", "n">>),
        <<BACKSLASH, "c", "o", "s">>, <<"c", "o", "s">>),
        <<BACKSLASH, "t", "a", "n">>, <<"t", "a", "n">>),
        <<BACKSLASH, "l", "o", "g">>, <<"l", "o", "g">>),
        <<BACKSLASH, "l", "n">>, <<"l", "o", "g">>)

\* lines 43-49, in their order
ReplaceNames(s) ==
    ReplaceAll(ReplaceAll(ReplaceAll(ReplaceAll(ReplaceAll(ReplaceAll(ReplaceAll(s,
        <<BACKSLASH, "p", "i">>, <<"p", "i">>),
        <<BACKSLASH, "t", "h", "e", "t", "a">>, <<"t", "h", "e", "t", "a">>),
        <<BACKSLASH, "i", "n", "f", "t", "y">>, <<"o", "o">>),
        <<BACKSLASH, "m", "a", "t", "h", "r", "m", "{", "e", "}">>, <<"E">>),
        <<BACKSLASH, "c", "d", "o", "t">>, <<"*">>),
        <<BACKSLASH, "d", "i", "v">>, <<"/">>),
        PM, <<"+", "/", "-">>)

\* TranslateMacros rendering \pm as '+'
TranslateMacrosPlus(s) == ReplaceAll(s, PM, <<"+">>)

\* the rewrites of lines 33-49.  Every pattern starts with a backslash, so a
\* string without one is left as it is.
TranslateMacros(s) ==
    IF \E i \in 1..Len(s) : s[i] = BACKSLASH THEN ReplaceNames(ReplaceBraced(s)) ELSE s

\* what "return sympy.sympify(sympy_str)" leaves the try with: None is <<>>,
\* a SymbolicForm f is <<f>>
ReturnForm(r) == IF r.raised THEN Raised(r.exc, <<>>) ELSE Returned(<<r.val>>)

latex_to_sympy(latex, f) ==
    ExceptException(
        ReturnForm(sympify(TranslateMacros(StripDollar(Strip(latex))), f)), <<>>)

\* the float the literal 1e-9 denotes
TOLERANCE == FromDecimal(0, <<0, 0, 0, 0, 0, 0, 0, 0, 1>>)

\* abs(a - b) <= 1e-9
WithinToleranceInclusive(a, b) == ~FloatLt(TOLERANCE, FloatAbs(FloatSub(a, b)))

\* abs(a - b) < 1e-9
WithinTolerance(a, b) == FloatLt(FloatAbs(FloatSub(a, b)), TOLERANCE)

\* line 62
NumericCompare(f1, f2) ==
    IF f1.raised THEN Raised(f1.exc, FALSE)
    ELSE IF f2.raised THEN Raised(f2.exc, FALSE)
    ELSE Returned(WithinTolerance(f1.val, f2.val))

\* lines 60-62
NumericOf(s1, s2, f) ==
    IF s1.raised THEN Raised(s1.exc, FALSE)
    ELSE IF s2.raised THEN Raised(s2.exc, FALSE)
    ELSE IF s1.val = <<>> \/ s2.val = <<>> THEN Returned(FALSE)
    ELSE NumericCompare(evalf_float(s1.val[1], f), evalf_float(s2.val[1], f))

\* the try of check_numeric_equivalence
numeric_body(e1, e2, f) ==
    NumericOf(latex_to_sympy(e1, f), latex_to_sympy(e2, f), f)

\* check_numeric_equivalence without its try/except
check_numeric_unguarded(e1, e2, f) == numeric_body(e1, e2, f)

check_numeric_equivalence(e1, e2, f) ==
    ExceptException(numeric_body(e1, e2, f), FALSE)

\* simplify(s1).equals(simplify(s2))
SymbolicCompare(a, b) ==
    IF a.raised THEN Raised(a.exc, FALSE)
    ELSE IF b.raised THEN Raised(b.exc, FALSE)
    ELSE Returned(equals(a.val, b.val))

\* SymbolicOf in which two absent sides compare equal (None == None)
SymbolicOfAbsentEqual(s1, s2, f) ==
    IF s1.raised THEN Raised(s1.exc, FALSE)
    ELSE IF s2.raised THEN Raised(s2.exc, FALSE)
    ELSE IF s1.val = <<>> \/ s2.val = <<>> THEN Returned(s1.val = s2.val)
    ELSE SymbolicCompare(Sympy("simplify", simplify(s1.val[1]), f),
                         Sympy("simplify", simplify(s2.val[1]), f))

\* line 71
SymbolicOf(s1, s2, f) ==
    IF s1.raised THEN Raised(s1.exc, FALSE)
    ELSE IF s2.raised THEN Raised(s2.exc, FALSE)
    ELSE IF s1.val = <<>> THEN Returned(FALSE)
    ELSE IF s2.val = <<>> THEN Returned(FALSE)
    ELSE SymbolicCompare(Sympy("simplify", simplify(s1.val[1]), f),
                         Sympy("simplify", simplify(s2.val[1]), f))

\* the try of check_symbolic_equivalence
symbolic_body(e1, e2, f) ==
    SymbolicOf(latex_to_sympy(e1, f), latex_to_sympy(e2, f), f)

check_symbolic_equivalence(e1, e2, f) ==
    ExceptException(symbolic_body(e1, e2, f), FALSE)

\* lines 82-86: expand, then factor, then simplify(s1 - s2) == 0
AlgebraicCompare(s1, s2, x1, x2, d) ==
    IF x1.raised THEN Raised(x1.exc, FALSE)
    ELSE IF x2.raised THEN Raised(x2.exc, FALSE)
    ELSE IF equals(x1.val, x2.val) THEN Returned(TRUE)
    ELSE IF equals(factor(s1), factor(s2)) THEN Returned(TRUE)
    ELSE IF d.raised THEN Raised(d.exc, FALSE)
    ELSE Returned(IsZero(d.val))

\* lines 80-86
AlgebraicOf(s1, s2, f) ==
    IF s1.raised THEN Raised(s1.exc, FALSE)
    ELSE IF s2.raised THEN Raised(s2.exc, FALSE)
    ELSE IF s1.val = <<>> \/ s2.val = <<>> THEN Returned(FALSE)
    ELSE AlgebraicCompare(s1.val[1], s2.val[1],
             Sympy("expand", expand(s1.val[1]), f),
             Sympy("expand", expand(s2.val[1]), f),
             Difference(s1.val[1], s2.val[1], f))

\* the try of check_algebraic_equivalence
algebraic_body(e1, e2, f) ==
    AlgebraicOf(latex_to_sympy(e1, f), latex_to_sympy(e2, f), f)

check_algebraic_equivalence(e1, e2, f) ==
    ExceptException(algebraic_body(e1, e2, f), FALSE)

\* "=" in s
HasEq(s) == \E i \in 1..Len(s) : s[i] = "="

\* s.split("=", 1)[1].strip()
RhsOf(s) == Strip(SubSeq(s, Min({i \in 1..Len(s) : s[i] = "="}) + 1, Len(s)))

\* lines 98-102
AreEquivalentViaUser(user_expr, correct_expr, f, viaUser) ==
    IF HasEq(user_expr) /\ ~HasEq(correct_expr) /\ viaUser.raised THEN viaUser
    ELSE IF HasEq(user_expr) /\ ~HasEq(correct_expr) /\ viaUser.val THEN Returned(TRUE)
    ELSE Returned(FALSE)

\* lines 94-102
AreEquivalentViaCorrect(user_expr, correct_expr, f, viaCorrect) ==
    IF HasEq(correct_expr) /\ ~HasEq(user_expr) /\ viaCorrect.raised THEN viaCorrect
    ELSE IF HasEq(correct_expr) /\ ~HasEq(user_expr) /\ viaCorrect.val THEN Returned(TRUE)
    ELSE AreEquivalentViaUser(user_expr, correct_expr, f,
             check_symbolic_equivalence(RhsOf(user_expr), correct_expr, f))

\* lines 92-102
AreEquivalentFrom(user_expr, correct_expr, f, direct) ==
    IF direct.raised THEN direct
    ELSE IF direct.val THEN Returned(TRUE)
    ELSE AreEquivalentViaCorrect(user_expr, correct_expr, f,
             check_symbolic_equivalence(user_expr, RhsOf(correct_expr), f))

\* are_equivalent with the retries on a right-hand side alone
are_equivalent_retries(user_expr, correct_expr, f) ==
    AreEquivalentViaCorrect(user_expr, correct_expr, f,
        check_symbolic_equivalence(user_expr, RhsOf(correct_expr), f))

\* are_equivalent without the retries on a right-hand side
are_equivalent_direct(user_expr, correct_expr, f) ==
    check_symbolic_equivalence(user_expr, correct_expr, f)

are_equivalent(user_expr, correct_expr, f) ==
    AreEquivalentFrom(user_expr, correct_expr, f,
        check_symbolic_equivalence(user_expr, correct_expr, f))

----------------------------------------------------------------------------
(* models/answer_models.py *)

SHORT_ANSWER == "short_answer"
MULTIPLE_CHOICE == "multiple_choice"

AnswerCheckRequest(user, correct, qtype, sel) ==
    [user_answer |-> user, correct_answer |-> correct,
     question_type |-> qtype, selected_option |-> sel]

\* An explanation is its fixed text, the strategy name an f-string put into
\* it ("" when none) and the expressions or numbers it formatted into it.
Explanation(text, name, exprs) == [text |-> text, name |-> name, exprs |-> exprs]

\* error_message and recognized_latex default to None
AnswerCheckResponse(ok, conf, expl, err) ==
    [is_correct |-> ok, confidence |-> conf, explanation |-> expl,
     error_message |-> err, recognized_latex |-> <<>>]

----------------------------------------------------------------------------
(* routers/answer.py *)

\* confidence weights, in hundredths
CONF_LATEX_EXACT == 100
CONF_NUMERIC == 90
CONF_SYMBOLIC == 80
CONF_ALGEBRAIC == 70
CONF_RHS_EQUIV == 95
\* the confidence of a correct and of an incorrect verdict outside the weights
CONF_CERTAIN == 100
CONF_NONE == 0

\* what the short-answer branch computes before it decides
NoLocals == [user_expr |-> <<>>, corr_expr |-> <<>>, strategies |-> <<>>]

Strategy(name, ok, conf) == [name |-> name, ok |-> ok, conf |-> conf]

\* SelectedVerdict comparing the 0-based selection with the 1-based display
\* index of the reference
SelectedVerdictOneBased(sel, correct_idx) ==
    AnswerCheckResponse(sel = correct_idx + 1,
        IF sel = correct_idx + 1 THEN CONF_CERTAIN ELSE CONF_NONE,
        IF sel = correct_idx + 1
        THEN Explanation("Correct answer selected", "", <<>>)
        ELSE Explanation("Incorrect. Correct option was {}.", "",
                         <<IntToStr(correct_idx + 1)>>),
        <<>>)

\* SelectedVerdict with "confidence=1.0", the answer being categorical
SelectedVerdictCertain(sel, correct_idx) ==
    AnswerCheckResponse(sel = correct_idx, CONF_CERTAIN,
        IF sel = correct_idx
        THEN Explanation("Correct answer selected", "", <<>>)
        ELSE Explanation("Incorrect. Correct option was {}.", "",
                         <<IntToStr(correct_idx + 1)>>),
        <<>>)

\* SelectedVerdict naming the correct option by its 0-based index
SelectedVerdictZeroBased(sel, correct_idx) ==
    AnswerCheckResponse(sel = correct_idx,
        IF sel = correct_idx THEN CONF_CERTAIN ELSE CONF_NONE,
        IF sel = correct_idx
        THEN Explanation("Correct answer selected", "", <<>>)
        ELSE Explanation("Incorrect. Correct option was {}.", "",
                         <<IntToStr(correct_idx)>>),
        <<>>)

\* lines 28-35
SelectedVerdict(sel, correct_idx) ==
    AnswerCheckResponse(sel = correct_idx,
        IF sel = correct_idx THEN CONF_CERTAIN ELSE CONF_NONE,
        IF sel = correct_idx
        THEN Explanation("Correct answer selected", "", <<>>)
        ELSE Explanation("Incorrect. Correct option was {}.", "",
                         <<IntToStr(correct_idx + 1)>>),
        <<>>)

\* MultipleChoiceOf with the ValueError handler returning a plain incorrect
\* verdict
MultipleChoiceSilent(sel, parsed) ==
    IF sel = <<>>
    THEN AnswerCheckResponse(FALSE, CONF_NONE,
             Explanation("No option selected", "", <<>>), <<>>)
    ELSE IF parsed = <<>>
    THEN AnswerCheckResponse(FALSE, CONF_NONE,
             Explanation("Invalid correct_answer format", "", <<>>), <<>>)
    ELSE SelectedVerdict(sel[1], parsed[1])

\* lines 21-42; parsed is int(request.correct_answer)
\* MultipleChoiceOf with the reference parsed before the selection is looked at
MultipleChoiceParseFirst(sel, parsed) ==
    IF parsed = <<>>
    THEN AnswerCheckResponse(FALSE, CONF_NONE,
             Explanation("Invalid correct_answer format", "", <<>>),
             <<"Invalid correct_answer format">>)
    ELSE IF sel = <<>>
    THEN AnswerCheckResponse(FALSE, CONF_NONE,
             Explanation("No option selected", "", <<>>), <<>>)
    ELSE SelectedVerdict(sel[1], parsed[1])

MultipleChoiceOf(sel, parsed) ==
    IF sel = <<>>
    THEN AnswerCheckResponse(FALSE, CONF_NONE,
             Explanation("No option selected", "", <<>>), <<>>)
    ELSE IF parsed = <<>>
    THEN \* int() raised ValueError
         AnswerCheckResponse(FALSE, CONF_NONE,
             Explanation("Invalid correct_answer format", "", <<>>),
             <<"Invalid correct_answer format">>)
    ELSE SelectedVerdict(sel[1], parsed[1])

multiple_choice(req) ==
    MultipleChoiceOf(req.selected_option, IntOfStr(req.correct_answer))

\* lines 44-45
Normalize(raw) == clean_latex(extract_math_expr(Strip(raw)))

\* lines 47-53: the list is built in full, every strategy is called
\* Strategies built lazily: nothing after the first match is evaluated
StrategiesUntilMatch(user_expr, corr_expr, f) ==
    IF user_expr = corr_expr
    THEN << Strategy("latex_exact", Returned(TRUE), CONF_LATEX_EXACT) >>
    ELSE << Strategy("latex_exact", Returned(FALSE), CONF_LATEX_EXACT),
            Strategy("numeric", check_numeric_equivalence(user_expr, corr_expr, f), CONF_NUMERIC),
            Strategy("symbolic", check_symbolic_equivalence(user_expr, corr_expr, f), CONF_SYMBOLIC),
            Strategy("algebraic", check_algebraic_equivalence(user_expr, corr_expr, f), CONF_ALGEBRAIC),
            Strategy("rhs_equiv", are_equivalent(user_expr, corr_expr, f), CONF_RHS_EQUIV) >>

Strategies(user_expr, corr_expr, f) ==
    << Strategy("latex_exact", Returned(user_expr = corr_expr), CONF_LATEX_EXACT),
       Strategy("numeric", check_numeric_equivalence(user_expr, corr_expr, f), CONF_NUMERIC),
       Strategy("symbolic", check_symbolic_equivalence(user_expr, corr_expr, f), CONF_SYMBOLIC),
       Strategy("algebraic", check_algebraic_equivalence(user_expr, corr_expr, f), CONF_ALGEBRAIC),
       Strategy("rhs_equiv", are_equivalent(user_expr, corr_expr, f), CONF_RHS_EQUIV) >>

\* FirstOf taking the last of the strategies that matched
LastOf(strategies, hits) ==
    IF hits = {} THEN <<>> ELSE <<strategies[Max(hits)]>>

\* the matching strategy of highest confidence
MostConfident(strategies, hits) ==
    IF hits = {} THEN <<>>
    ELSE <<strategies[CHOOSE k \in hits :
                        \A j \in hits : strategies[k].conf >= strategies[j].conf]>>

\* the first of the strategies that matched
FirstOf(strategies, hits) ==
    IF hits = {} THEN <<>> ELSE <<strategies[Min(hits)]>>

\* Best as max(..., key=confidence)
BestByConfidence(strategies) ==
    MostConfident(strategies, {k \in 1..Len(strategies) : strategies[k].ok.val})

\* line 54: next(((name, conf) for name, ok, conf in strategies if ok), None)
Best(strategies) ==
    FirstOf(strategies, {k \in 1..Len(strategies) : strategies[k].ok.val})

\* Verdict with the two expressions of the incorrect explanation exchanged
VerdictSwapped(best, user_expr, corr_expr) ==
    IF best # <<>>
    THEN AnswerCheckResponse(TRUE, best[1].conf,
             Explanation("Answer correct via {} comparison", best[1].name, <<>>), <<>>)
    ELSE AnswerCheckResponse(FALSE, CONF_NONE,
             Explanation("Answer is incorrect. Expected {}, got {}", "",
                         <<user_expr, corr_expr>>), <<>>)

\* lines 55-66
Verdict(best, user_expr, corr_expr) ==
    IF best # <<>>
    THEN AnswerCheckResponse(TRUE, best[1].conf,
             Explanation("Answer correct via {} comparison", best[1].name, <<>>), <<>>)
    ELSE AnswerCheckResponse(FALSE, CONF_NONE,
             Explanation("Answer is incorrect. Expected {}, got {}", "",
                         <<corr_expr, user_expr>>), <<>>)

\* lines 54-66
Decide(strategies, user_expr, corr_expr) ==
    Verdict(Best(strategies), user_expr, corr_expr)

\* lines 44-53
LocalsOf(user_expr, corr_expr, f) ==
    [user_expr |-> user_expr, corr_expr |-> corr_expr,
     strategies |-> Strategies(user_expr, corr_expr, f)]

\* the locals of a short-answer run
ShortLocals(req, f) ==
    LocalsOf(Normalize(req.user_answer), Normalize(req.correct_answer), f)

\* an exception that left a strategy leaves the list comprehension
ShortAnswerOf(l, failed) ==
    IF failed # {} THEN Raised(l.strategies[Min(failed)].ok.exc, <<>>)
    ELSE Returned(<<Decide(l.strategies, l.user_expr, l.corr_expr)>>)

\* lines 44-66
short_answer(l) ==
    ShortAnswerOf(l, {k \in 1..Len(l.strategies) : l.strategies[k].ok.raised})

\* the body of the try of lines 19-66: the response it returns, or the
\* exception that leaves it
check_answer_body(req, f) ==
    IF FaultAt(f, "body") THEN Raised(f.exc, <<>>)
    ELSE IF req.question_type = MULTIPLE_CHOICE THEN Returned(<<multiple_choice(req)>>)
    ELSE short_answer(ShortLocals(req, f))

\* lines 69-74
ValidationError(e) ==
    AnswerCheckResponse(FALSE, CONF_NONE, Explanation("Validation error", "", <<>>), <<e.text>>)

\* ExceptOuter as "except ValueError as e"
ExceptOuterValueError(body) ==
    IF body.raised /\ body.exc.cls = "ValueError"
    THEN Returned(<<ValidationError(body.exc)>>)
    ELSE body

\* lines 67-74: except Exception as e
ExceptOuter(body) ==
    IF body.raised /\ body.exc.cls \in ExceptionClasses
    THEN Returned(<<ValidationError(body.exc)>>)
    ELSE body

\* check_answer: what the caller gets, a response or an exception
check_answer(req, f) == ExceptOuter(check_answer_body(req, f))

----------------------------------------------------------------------------
(* routers/content.py and auth.py: content generation, its cache and the   *)
(* weekly usage quota.  The subscriptions and generated_topics tables are in *)
(* a database that every instance of the server shares.  A request is a job *)
(* and each step of a job is one call of the database or of the language    *)
(* model.  The database client is synchronous, so within one event loop a   *)
(* handler runs from call to call without interruption; the interleavings   *)
(* are those of requests that different instances serve.  Every call of the *)
(* database succeeds.                                                       *)

\* auth.py line 237: max_prompts_per_week of a new subscription
DEFAULT_MAX == 10

\* auth.py line 201: timedelta(weeks=1), in days
WEEK == 7

\* status codes of the responses: lines 109 and 188 of content.py, the
\* default of a response and line 314
TOO_MANY_REQUESTS == 429
INTERNAL_ERROR == 500
OK == 200
ACCEPTED == 202

\* A week_start_date as stored: NULL, or a text.  A text that is an ISO time
\* names the day and carries the offset "+00:00", "Z" or none; any other
\* text is no time.
DateText(day, zone) == [day |-> day, zone |-> zone]
NoDate == DateText(0, "None")
Garbled == DateText(0, "?")

\* datetime.isoformat() of a time in UTC
isoformat(t) == DateText(t, "+00:00")

\* lines 187-196: "Z" becomes "+00:00", a time without an offset is in UTC
WithOffset(s) == IF s.zone \in {"Z", ""} THEN DateText(s.day, "+00:00") ELSE s

\* line 194: datetime.fromisoformat
fromisoformat(s) ==
    IF s.zone = "+00:00" THEN Returned(s.day)
    ELSE Raised(Exc("ValueError", "Invalid isoformat string"), 0)

\* a row of subscriptions, for the one user of the model
Subscription(max, used, week_start) ==
    [max_prompts_per_week |-> max, prompts_used_this_week |-> used,
     week_start_date |-> week_start]

\* lines 163-168 and 261-266: the record a call gets without the database
DefaultSubscription == Subscription(DEFAULT_MAX, 0, NoDate)

\* lines 232-242
NewSubscription(t) == Subscription(DEFAULT_MAX, 0, isoformat(t))

\* the reset that is due when a week has passed but not at the week itself
ResetDueAfterAWeek(row, t) ==
    /\ row.week_start_date # NoDate
    /\ \/ fromisoformat(WithOffset(row.week_start_date)).raised
       \/ t - fromisoformat(WithOffset(row.week_start_date)).val > WEEK

\* lines 183-201 and 213: a week_start_date is stored, and it is a week old
\* or does not parse
ResetDue(row, t) ==
    /\ row.week_start_date # NoDate
    /\ \/ fromisoformat(WithOffset(row.week_start_date)).raised
       \/ t - fromisoformat(WithOffset(row.week_start_date)).val >= WEEK

\* lines 202-203 and 219-220
ResetAt(row, t) ==
    [row EXCEPT !.prompts_used_this_week = 0, !.week_start_date = isoformat(t)]

\* the check that admits a user who has reached the limit
CanUseAtLimit(subscription) ==
    subscription.prompts_used_this_week <= subscription.max_prompts_per_week

\* line 278: can_use
CanUse(subscription) ==
    subscription.prompts_used_this_week < subscription.max_prompts_per_week

\* auth.py lines 271-283: what check_usage_limit returns for the record of
\* get_or_create_subscription
check_usage_limit(subscription) ==
    [can_use |-> CanUse(subscription),
     max_prompts |-> subscription.max_prompts_per_week,
     used_prompts |-> subscription.prompts_used_this_week]

\* str.lower() on the letters of the topics
Lower(s) ==
    AsTuple([i \in 1..Len(s) |->
        CASE s[i] = "A" -> "a" [] s[i] = "B" -> "b" [] s[i] = "C" -> "c" [] OTHER -> s[i]])

RECURSIVE Collapse(_)
\* re.sub(r"\s+", " ", s)
Collapse(s) ==
    IF Len(s) = 0 THEN s
    ELSE IF s[1] \notin Whitespace THEN <<s[1]>> \o Collapse(Tail(s))
    ELSE <<SPACE>> \o Collapse(SubSeq(s,
             Min({i \in 1..(Len(s) + 1) : i > Len(s) \/ s[i] \notin Whitespace}), Len(s)))

\* lines 43-52
_norm(s) == Collapse(ReplaceAll(Lower(Strip(s)), <<"-">>, <<SPACE>>))

\* the key of a row of generated_topics
CacheKey(topic, course) == <<_norm(topic), _norm(course)>>

\* topic and course of the requests: two spellings of one key, and another key
TopicRequests ==
    { [topic |-> <<"A", "-", "b">>, course |-> <<"c">>],
      [topic |-> <<" ", "a", " ", " ", "b">>, course |-> <<"C", " ">>],
      [topic |-> <<"a", "b">>, course |-> <<"c">>] }

\* current_user: None, or the user
Callers == {<<>>, <<"u1">>}
Endpoints == {"generate_content", "stream_content"}

Jobs == 1..MaxJobs
NoJob ==
    [pc |-> "idle", endpoint |-> "", user |-> <<>>, topic |-> <<>>, course |-> <<>>,
     usage_limit |-> <<>>, subscription |-> <<>>, cached |-> <<>>, content |-> <<>>, status |-> 0, exc |-> "",
     looked |-> FALSE, llm |-> FALSE, saved |-> FALSE, counted |-> FALSE]

\* the tables and the jobs while the answer checker runs
ContentIdle ==
    /\ service_supabase = FALSE
    /\ subscriptions = <<>>
    /\ generated_topics = <<>>
    /\ now = 0
    /\ jobs = [j \in Jobs |-> NoJob]
    /\ history = [baseline |-> 0, reset |-> FALSE]

\* a request arrives (content.py lines 100-105 and 257-266); the jobs are numbered in
\* the order of their arrival
Arrive(j, endpoint, user, req) ==
    /\ jobs[j].pc = "idle"
    /\ \A i \in 1..(j - 1) : jobs[i].pc # "idle"
    /\ jobs' = [jobs EXCEPT ![j] =
                  [NoJob EXCEPT !.pc = IF user # <<>> THEN "gate" ELSE "lookup",
                                !.endpoint = endpoint, !.user = user,
                                !.topic = req.topic, !.course = req.course]]
    /\ UNCHANGED <<service_supabase, subscriptions, generated_topics, now, history>>
    /\ UNCHANGED answerVars

\* auth.py lines 159-254 without the update of a reset: the record that
\* get_or_create_subscription holds after its select.  The insert of the
\* first call is taken with the select: what a second insert for the user
\* does depends on the constraints of the table, which the source does not
\* show.
Selected ==
    IF ~service_supabase THEN DefaultSubscription
    ELSE IF subscriptions = <<>> THEN NewSubscription(now)
    ELSE IF ResetDue(subscriptions[1], now) THEN ResetAt(subscriptions[1], now)
    ELSE subscriptions[1]

\* the call goes on to update the row
ResetPending ==
    service_supabase /\ subscriptions # <<>> /\ ResetDue(subscriptions[1], now)

\* lines 230-254
Inserted ==
    IF service_supabase /\ subscriptions = <<>> THEN <<NewSubscription(now)>>
    ELSE subscriptions

\* lines 206-211 and 222-227: update(...).eq("user_id", user_id)
ResetRow(subscription) ==
    [r \in DOMAIN subscriptions |->
        [subscriptions[r] EXCEPT
            !.prompts_used_this_week = 0,
            !.week_start_date = subscription.week_start_date]]

\* content.py lines 105-114 and 266-275: the job goes on to the cache, or
\* ends with 429
Gated(job, usage_limit) ==
    IF usage_limit.can_use
    THEN [job EXCEPT !.pc = "lookup", !.usage_limit = <<usage_limit>>]
    ELSE [job EXCEPT !.pc = "done", !.usage_limit = <<usage_limit>>,
                     !.status = TOO_MANY_REQUESTS]

\* check_usage_limit: the select of get_or_create_subscription
Gate(j) ==
    /\ jobs[j].pc = "gate"
    /\ subscriptions' = Inserted
    /\ jobs' = [jobs EXCEPT ![j] =
                  IF ResetPending
                  THEN [@ EXCEPT !.pc = "gate_reset", !.subscription = <<Selected>>]
                  ELSE Gated([@ EXCEPT !.subscription = <<Selected>>],
                             check_usage_limit(Selected))]
    /\ UNCHANGED <<service_supabase, generated_topics, now, history>>
    /\ UNCHANGED answerVars

\* check_usage_limit: the update of a reset, and the check
GateReset(j) ==
    /\ jobs[j].pc = "gate_reset"
    /\ subscriptions' = ResetRow(jobs[j].subscription[1])
    /\ history' = [history EXCEPT !.reset = TRUE]
    /\ jobs' = [jobs EXCEPT ![j] = Gated(@, check_usage_limit(@.subscription[1]))]
    /\ UNCHANGED <<service_supabase, generated_topics, now>>
    /\ UNCHANGED answerVars

\* get_cached_topic, lines 59-72: the select (called at lines 117 and 278)
Lookup(j) ==
    /\ jobs[j].pc = "lookup"
    /\ jobs' = [jobs EXCEPT ![j] =
                  IF service_supabase
                     /\ CacheKey(jobs[j].topic, jobs[j].course) \in DOMAIN generated_topics
                  THEN [@ EXCEPT !.pc = "touch", !.looked = TRUE,
                                 !.cached = <<generated_topics[
                                     CacheKey(jobs[j].topic, jobs[j].course)].content>>]
                  ELSE [@ EXCEPT !.looked = TRUE,
                                 !.pc = IF jobs[j].endpoint = "generate_content"
                                        THEN "generate" ELSE "stream"]]
    /\ UNCHANGED <<service_supabase, subscriptions, generated_topics, now, history>>
    /\ UNCHANGED answerVars

\* Touch for a handler that counts the request it serves from the cache
TouchAndCount(j) ==
    /\ jobs[j].pc = "touch"
    /\ generated_topics' =
         [k \in DOMAIN generated_topics |->
            IF k = CacheKey(jobs[j].topic, jobs[j].course)
            THEN [generated_topics[k] EXCEPT !.last_accessed = <<now>>]
            ELSE generated_topics[k]]
    /\ jobs' = [jobs EXCEPT ![j] =
                  IF @.user # <<>> THEN [@ EXCEPT !.pc = "usage"]
                  ELSE [@ EXCEPT !.pc = "done", !.status = OK]]
    /\ UNCHANGED <<service_supabase, subscriptions, now, history>>
    /\ UNCHANGED answerVars

\* get_cached_topic, lines 73-77: last_accessed of the row is updated and
\* the cached content is the response (lines 118-120 and 280-287)
Touch(j) ==
    /\ jobs[j].pc = "touch"
    /\ generated_topics' =
         [k \in DOMAIN generated_topics |->
            IF k = CacheKey(jobs[j].topic, jobs[j].course)
            THEN [generated_topics[k] EXCEPT !.last_accessed = <<now>>]
            ELSE generated_topics[k]]
    /\ jobs' = [jobs EXCEPT ![j] = [@ EXCEPT !.pc = "done", !.status = OK]]
    /\ UNCHANGED <<service_supabase, subscriptions, now, history>>
    /\ UNCHANGED answerVars

\* content.py lines 122-178: the call of the language model and the parsing
\* of its text; every failure becomes the response 500 (lines 186-188)
Generate(j, ok) ==
    /\ jobs[j].pc = "generate"
    /\ jobs' = [jobs EXCEPT ![j] =
                  IF ok THEN [@ EXCEPT !.pc = "save", !.llm = TRUE, !.content = <<j>>]
                  ELSE [@ EXCEPT !.pc = "done", !.llm = TRUE, !.status = INTERNAL_ERROR]]
    /\ UNCHANGED <<service_supabase, subscriptions, generated_topics, now, history>>
    /\ UNCHANGED answerVars

\* save_cached_topic, lines 83-98: the upsert on (topic, course), which
\* leaves last_accessed of a row that exists
Upserted(key, content) ==
    [k \in DOMAIN generated_topics \cup {key} |->
        IF k # key THEN generated_topics[k]
        ELSE [content |-> content,
              last_accessed |-> IF key \in DOMAIN generated_topics
                                THEN generated_topics[key].last_accessed ELSE <<>>]]

\* content.py lines 181-185: the content is saved; the usage of a user is
\* counted next, and an anonymous request is answered
Save(j) ==
    /\ jobs[j].pc = "save"
    /\ generated_topics' =
         IF service_supabase
         THEN Upserted(CacheKey(jobs[j].topic, jobs[j].course), jobs[j].content[1])
         ELSE generated_topics
    /\ jobs' = [jobs EXCEPT ![j] =
                  IF @.user # <<>> THEN [@ EXCEPT !.pc = "usage", !.saved = service_supabase]
                  ELSE [@ EXCEPT !.pc = "done", !.status = OK, !.saved = service_supabase]]
    /\ UNCHANGED <<service_supabase, subscriptions, now, history>>
    /\ UNCHANGED answerVars

\* increment_usage, lines 295-303: without the service client it returns
\* False; else the select of get_or_create_subscription
Usage(j) ==
    /\ jobs[j].pc = "usage"
    /\ subscriptions' = Inserted
    /\ jobs' = [jobs EXCEPT ![j] =
                  IF ~service_supabase THEN [@ EXCEPT !.pc = "done", !.status = OK]
                  ELSE [@ EXCEPT !.pc = IF ResetPending THEN "usage_reset" ELSE "usage_write",
                                 !.subscription = <<Selected>>]]
    /\ UNCHANGED <<service_supabase, generated_topics, now, history>>
    /\ UNCHANGED answerVars

\* increment_usage: the update of a reset in get_or_create_subscription
UsageReset(j) ==
    /\ jobs[j].pc = "usage_reset"
    /\ subscriptions' = ResetRow(jobs[j].subscription[1])
    /\ history' = [history EXCEPT !.reset = TRUE]
    /\ jobs' = [jobs EXCEPT ![j] = [@ EXCEPT !.pc = "usage_write"]]
    /\ UNCHANGED <<service_supabase, generated_topics, now>>
    /\ UNCHANGED answerVars

\* line 304: new_count
NewCount(subscription) == subscription.prompts_used_this_week + 1

\* increment_usage, lines 304-316: the update of the count, and the response
\* of generate_content (line 185)
UsageWrite(j) ==
    /\ jobs[j].pc = "usage_write"
    /\ subscriptions' =
         [r \in DOMAIN subscriptions |->
            [subscriptions[r] EXCEPT
                !.prompts_used_this_week = NewCount(jobs[j].subscription[1])]]
    /\ jobs' = [jobs EXCEPT ![j] = [@ EXCEPT !.pc = "done", !.status = OK, !.counted = TRUE]]
    /\ UNCHANGED <<service_supabase, generated_topics, now, history>>
    /\ UNCHANGED answerVars

\* stream_content, lines 289-314: the response starts, and its generator
\* calls gemini_stream, a name that content.py neither defines nor imports:
\* NameError ends the stream before anything is saved or counted
Stream(j) ==
    /\ jobs[j].pc = "stream"
    /\ jobs' = [jobs EXCEPT ![j] =
                  [@ EXCEPT !.pc = "done", !.status = ACCEPTED, !.exc = "NameError"]]
    /\ UNCHANGED <<service_supabase, subscriptions, generated_topics, now, history>>
    /\ UNCHANGED answerVars

\* a day passes
Tick ==
    /\ now < MaxDay
    /\ now' = now + 1
    /\ UNCHANGED <<service_supabase, subscriptions, generated_topics, jobs, history>>
    /\ UNCHANGED answerVars

----------------------------------------------------------------------------
(* The state machine: the server is idle, a call runs to completion, its  *)
(* result is handed to the caller, the server is idle again.              *)

NoCall == [fn |-> "", arg |-> <<>>, result |-> <<>>]
NoRequest == AnswerCheckRequest(<<>>, <<>>, "", <<>>)

\* short-answer requests: any user answer against a reference or against
\* a copy of itself (selected_option keeps its default, None)
ShortAnswerRequests ==
    { AnswerCheckRequest(u, c, SHORT_ANSWER, <<>>) :
        u \in Str \cup LongAnswers, c \in References }
    \cup { AnswerCheckRequest(u, u, SHORT_ANSWER, <<>>) : u \in Str \cup LongAnswers }

\* multiple-choice requests: any reference text, with or without a selection
MultipleChoiceRequests ==
    { AnswerCheckRequest(u, c, MULTIPLE_CHOICE, s) :
        u \in {<<>>, <<"1">>}, c \in Str, s \in SelectedOptions }

Requests == ShortAnswerRequests \cup MultipleChoiceRequests

\* requests of the runs in which the environment raises
FaultRequests ==
    { AnswerCheckRequest(u, c, q, s) :
        u \in References, c \in References, q \in {SHORT_ANSWER, MULTIPLE_CHOICE},
        s \in SelectedOptions }

\* a request being handled concurrently with others: the position in
\* check_answer and the local variables of that call
Tasks == 1..MaxTasks
NoTask == [pc |-> "idle", request |-> NoRequest, locals |-> NoLocals, response |-> <<>>]

\* no call of the answer checker is running
AnswerIdle ==
    /\ inflight = [i \in Tasks |-> NoTask]
    /\ pc = "idle"
    /\ call = NoCall
    /\ request = NoRequest
    /\ fault = NoFault
    /\ locals = NoLocals
    /\ response = <<>>
    /\ escaped = <<>>

Init == AnswerIdle /\ ContentIdle

\* the caller's side of a call of check_answer that ended with out
Deliver(req, f, out) ==
    /\ pc' = "done"
    /\ call' = [fn |-> "check_answer", arg |-> <<>>, result |-> <<>>]
    /\ request' = req
    /\ fault' = f
    /\ locals' = IF req.question_type = MULTIPLE_CHOICE \/ FaultAt(f, "body")
                 THEN NoLocals ELSE ShortLocals(req, f)
    /\ response' = IF out.raised THEN <<>> ELSE out.val
    /\ escaped' = IF out.raised THEN <<out.exc>> ELSE <<>>
    /\ UNCHANGED inflight
    /\ UNCHANGED contentVars

\* POST /api/check-answer
CheckAnswer(req, f) ==
    /\ pc = "idle"
    /\ Deliver(req, f, check_answer(req, f))

\* a direct call of extract_math_expr
ExtractMathExpr(s) ==
    /\ pc = "idle"
    /\ pc' = "done"
    /\ call' = [fn |-> "extract_math_expr", arg |-> s, result |-> extract_math_expr(s)]
    /\ UNCHANGED <<request, fault, locals, response, escaped, inflight>>
    /\ UNCHANGED contentVars

\* a direct call of clean_latex
CleanLatex(s) ==
    /\ pc = "idle"
    /\ pc' = "done"
    /\ call' = [fn |-> "clean_latex", arg |-> s, result |-> clean_latex(s)]
    /\ UNCHANGED <<request, fault, locals, response, escaped, inflight>>
    /\ UNCHANGED contentVars

\* the result is delivered; nothing of the call is kept
Return ==
    /\ pc = "done"
    /\ pc' = "idle"
    /\ call' = NoCall
    /\ request' = NoRequest
    /\ fault' = NoFault
    /\ locals' = NoLocals
    /\ response' = <<>>
    /\ escaped' = <<>>
    /\ UNCHANGED inflight
    /\ UNCHANGED contentVars

\* Each disjunct tests pc before it draws an input.
Next ==
    \/ pc = "idle" /\ \E req \in Requests : CheckAnswer(req, NoFault)
    \/ pc = "idle" /\ \E s \in Str : ExtractMathExpr(s)
    \/ pc = "idle" /\ \E s \in Str : CleanLatex(s)
    \/ Return

Spec == Init /\ [][Next]_vars

NextFault ==
    \/ pc = "idle" /\ \E req \in FaultRequests, f \in Faults : CheckAnswer(req, f)
    \/ Return

SpecFault == Init /\ [][NextFault]_vars

----------------------------------------------------------------------------
(* Several requests handled at the same time.  check_answer has no await, *)
(* so under asyncio a call runs without interruption; the steps below let *)
(* calls interleave between its statements, as worker threads would.      *)

\* requests the concurrent calls carry
ConcurrentRequests ==
    { AnswerCheckRequest(<<"1">>, <<"1">>, SHORT_ANSWER, <<>>),
      AnswerCheckRequest(<<"+", "1">>, <<"1">>, SHORT_ANSWER, <<>>),
      AnswerCheckRequest(<<"x">>, <<"1">>, SHORT_ANSWER, <<>>),
      AnswerCheckRequest(<<"1">>, <<"x", "=", "1">>, SHORT_ANSWER, <<>>),
      AnswerCheckRequest(<<>>, <<"1">>, MULTIPLE_CHOICE, <<1>>),
      AnswerCheckRequest(<<>>, <<"1">>, MULTIPLE_CHOICE, <<0>>),
      AnswerCheckRequest(<<>>, <<"1">>, MULTIPLE_CHOICE, <<>>) }

\* line 18: the call is entered with its request
Receive(i, req) ==
    /\ inflight[i].pc = "idle"
    /\ inflight' = [inflight EXCEPT ![i] = [@ EXCEPT !.pc = "entered", !.request = req]]
    /\ UNCHANGED <<pc, call, request, fault, locals, response, escaped>>
    /\ UNCHANGED contentVars

\* lines 20-42
MultipleChoice(i) ==
    /\ inflight[i].pc = "entered"
    /\ inflight[i].request.question_type = MULTIPLE_CHOICE
    /\ inflight' = [inflight EXCEPT ![i] =
                      [@ EXCEPT !.pc = "done",
                                !.response = <<multiple_choice(inflight[i].request)>>]]
    /\ UNCHANGED <<pc, call, request, fault, locals, response, escaped>>
    /\ UNCHANGED contentVars

\* lines 44-45
Normalise(i) ==
    /\ inflight[i].pc = "entered"
    /\ inflight[i].request.question_type # MULTIPLE_CHOICE
    /\ inflight' = [inflight EXCEPT ![i] =
                      [@ EXCEPT !.pc = "normalised",
                                !.locals = [@ EXCEPT
                                    !.user_expr = Normalize(inflight[i].request.user_answer),
                                    !.corr_expr = Normalize(inflight[i].request.correct_answer)]]]
    /\ UNCHANGED <<pc, call, request, fault, locals, response, escaped>>
    /\ UNCHANGED contentVars

\* user_expr and corr_expr as module-level variables, which hold what the
\* latest call to normalise has put there
TaskExprsShared(i) ==
    << inflight[Max({j \in Tasks : inflight[j].pc = "normalised"})].locals.user_expr,
       inflight[Max({j \in Tasks : inflight[j].pc = "normalised"})].locals.corr_expr >>

\* the local variables user_expr and corr_expr of call i
TaskExprs(i) == <<inflight[i].locals.user_expr, inflight[i].locals.corr_expr>>

\* lines 47-53
Compare(i) ==
    /\ inflight[i].pc = "normalised"
    /\ inflight' = [inflight EXCEPT ![i] =
                      [@ EXCEPT !.pc = "compared",
                                !.locals = [@ EXCEPT !.strategies =
                                    Strategies(TaskExprs(i)[1], TaskExprs(i)[2], NoFault)]]]
    /\ UNCHANGED <<pc, call, request, fault, locals, response, escaped>>
    /\ UNCHANGED contentVars

\* lines 54-74
Conclude(i) ==
    /\ inflight[i].pc = "compared"
    /\ inflight' = [inflight EXCEPT ![i] =
                      [@ EXCEPT !.pc = "done",
                                !.response = ExceptOuter(short_answer(inflight[i].locals)).val]]
    /\ UNCHANGED <<pc, call, request, fault, locals, response, escaped>>
    /\ UNCHANGED contentVars

\* the response is sent and the call's frame is gone
Respond(i) ==
    /\ inflight[i].pc = "done"
    /\ inflight' = [inflight EXCEPT ![i] = NoTask]
    /\ UNCHANGED <<pc, call, request, fault, locals, response, escaped>>
    /\ UNCHANGED contentVars

NextConcurrent ==
    \/ \E i \in Tasks, req \in ConcurrentRequests : Receive(i, req)
    \/ \E i \in Tasks : MultipleChoice(i)
    \/ \E i \in Tasks : Normalise(i)
    \/ \E i \in Tasks : Compare(i)
    \/ \E i \in Tasks : Conclude(i)
    \/ \E i \in Tasks : Respond(i)

SpecConcurrent == Init /\ [][NextConcurrent]_vars

----------------------------------------------------------------------------
(* Content requests: the tables are those of a deployment, with or without *)
(* the service client, and the user has no row yet or one that a week of   *)
(* use has left.                                                            *)

\* week_start_date of the rows that exist at the start
StoredDates == {isoformat(0), DateText(0, "Z"), DateText(0, ""), Garbled, NoDate}

InitialRows ==
    {<<>>} \cup { <<Subscription(DEFAULT_MAX, used, d)>> :
                    used \in {DEFAULT_MAX - 1, DEFAULT_MAX}, d \in StoredDates }

InitContent ==
    /\ AnswerIdle
    /\ service_supabase \in BOOLEAN
    /\ subscriptions \in (IF service_supabase THEN InitialRows ELSE {<<>>})
    /\ generated_topics = <<>>
    /\ now = WEEK - 1
    /\ jobs = [j \in Jobs |-> NoJob]
    /\ history = [baseline |-> IF subscriptions = <<>> THEN 0
                               ELSE subscriptions[1].prompts_used_this_week,
                  reset |-> FALSE]

NextContent ==
    \/ \E j \in Jobs, e \in Endpoints, u \in Callers, r \in TopicRequests : Arrive(j, e, u, r)
    \/ \E j \in Jobs : Gate(j)
    \/ \E j \in Jobs : GateReset(j)
    \/ \E j \in Jobs : Lookup(j)
    \/ \E j \in Jobs : Touch(j)
    \/ \E j \in Jobs, ok \in BOOLEAN : Generate(j, ok)
    \/ \E j \in Jobs : Save(j)
    \/ \E j \in Jobs : Usage(j)
    \/ \E j \in Jobs : UsageReset(j)
    \/ \E j \in Jobs : UsageWrite(j)
    \/ \E j \in Jobs : Stream(j)
    \/ Tick

SpecContent == InitContent /\ [][NextContent]_vars

----------------------------------------------------------------------------
(* Properties *)

\* a call of check_answer has returned
AnswerDone == pc = "done" /\ call.fn = "check_answer"
ShortDone == AnswerDone /\ request.question_type = SHORT_ANSWER
ChoiceDone == AnswerDone /\ request.question_type = MULTIPLE_CHOICE

\* N(raw) = clean(extract(trim(raw))) of the two inputs of the request
NormalUser == clean_latex(extract_math_expr(Strip(request.user_answer)))
NormalReference == clean_latex(extract_math_expr(Strip(request.correct_answer)))

\* the strategies in their fixed order, and what each reports for the request
StrategyNames == <<"latex_exact", "numeric", "symbolic", "algebraic", "rhs_equiv">>
StrategyWeights == <<100, 90, 80, 70, 95>>
Reports(k) ==
    CASE k = 1 -> NormalUser = NormalReference
      [] k = 2 -> check_numeric_equivalence(NormalUser, NormalReference, fault).val
      [] k = 3 -> check_symbolic_equivalence(NormalUser, NormalReference, fault).val
      [] k = 4 -> check_algebraic_equivalence(NormalUser, NormalReference, fault).val
      [] k = 5 -> are_equivalent(NormalUser, NormalReference, fault).val
Matching == {k \in 1..5 : Reports(k)}

\* C1: in a short-answer comparison where some strategy matches, the verdict
\* is that of the first matching strategy in the order latex_exact, numeric,
\* symbolic, algebraic, rhs_equiv: correct, that strategy's weight, and the
\* explanation naming it - not the largest matching weight.
C1_FirstMatchDecides ==
    (ShortDone /\ Matching # {}) =>
        response = << AnswerCheckResponse(TRUE, StrategyWeights[Min(Matching)],
                        Explanation("Answer correct via {} comparison",
                                    StrategyNames[Min(Matching)], <<>>),
                        <<>>) >>

\* numeric is the first to match and rhs_equiv, of larger weight, matches too
C1_Witness ==
    /\ ShortDone
    /\ Min(Matching \cup {5}) = 2
    /\ 5 \in Matching
    /\ response[1].confidence = 90

\* C2: in a short-answer comparison where no strategy matches, the verdict
\* is incorrect with confidence 0.0, the explanation "Answer is incorrect.
\* Expected <clean(extract(reference))>, got <clean(extract(candidate))>" and
\* no error_message.
C2_NoMatchIncorrect ==
    (ShortDone /\ Matching = {}) =>
        response = << AnswerCheckResponse(FALSE, 0,
                        Explanation("Answer is incorrect. Expected {}, got {}", "",
                            << clean_latex(extract_math_expr(request.correct_answer)),
                               clean_latex(extract_math_expr(request.user_answer)) >>),
                        <<>>) >>

\* no strategy matches, and the candidate came with surrounding whitespace
\* and delimiters that normalisation removed
C2_Witness ==
    /\ ShortDone
    /\ Matching = {}
    /\ Strip(request.user_answer) # request.user_answer
    /\ NormalUser # Strip(request.user_answer)
    /\ NormalUser # <<>>
    /\ response[1].explanation.exprs = <<NormalReference, NormalUser>>

\* C3: a short-answer comparison of a string against itself is correct with
\* confidence 1.0, attributed to latex_exact, whatever the other strategies
\* report.
C3_ExactReflexive ==
    (ShortDone /\ request.user_answer = request.correct_answer) =>
        /\ response # <<>>
        /\ response[1].is_correct
        /\ response[1].confidence = 100
        /\ response[1].explanation.name = "latex_exact"

\* a string compared with itself for which no other strategy matches
C3_Witness ==
    /\ ShortDone
    /\ request.user_answer = request.correct_answer
    /\ request.user_answer # <<>>
    /\ Matching = {1}
    /\ response[1].confidence = 100

\* a string compared with itself for which every strategy matches
C3_WitnessAllMatch ==
    /\ ShortDone
    /\ request.user_answer = request.correct_answer
    /\ Matching = 1..5
    /\ response[1].confidence = 100

\* C4 (as claimed): clean is idempotent, clean(clean(s)) = clean(s) for every
\* string s, also one with several leading or trailing '$'.
C4_CleanIdempotent ==
    (pc = "done" /\ call.fn = "clean_latex") =>
        clean_latex(call.result) = call.result

\* C5 (as claimed): the normalised expression the comparison computes,
\* N(raw) = clean(extract(trim(raw))), is a fixed point of N.
C5_NormalizeIdempotent ==
    ShortDone =>
        clean_latex(extract_math_expr(Strip(locals.user_expr))) = locals.user_expr

\* "a substring delimited by one or two '$' on each side" starting at i with
\* an opening of k dollars: any characters may stand between the delimiters
DelimitedAt(s, i, k) ==
    /\ i + k - 1 <= Len(s)
    /\ \A d \in 0..(k - 1) : s[i + d] = DOLLAR
    /\ NextDollar(s, i + k) # 0

\* the content of the first such substring
DelimitedContent(s, starts) ==
    IF DelimitedAt(s, Min(starts), 2) THEN GroupAt(s, Min(starts), 2)
    ELSE GroupAt(s, Min(starts), 1)

\* extract as the claim words it
ExtractAsClaimed(s, starts) ==
    IF starts # {} THEN Strip(DelimitedContent(s, starts)) ELSE Strip(s)

\* C6 (as claimed): extract(raw) is the trimmed content of the first
\* substring of raw delimited by one or two '$' on each side if there is one,
\* and raw trimmed otherwise.
C6_ExtractFirstDelimited ==
    (pc = "done" /\ call.fn = "extract_math_expr") =>
        call.result =
            ExtractAsClaimed(call.arg,
                {i \in 1..Len(call.arg) :
                    DelimitedAt(call.arg, i, 2) \/ DelimitedAt(call.arg, i, 1)})

\* C7: a multiple-choice request with a selected option and an integer
\* reference is correct iff the selected index equals the integer-parsed
\* reference, with confidence 1.0 when correct and 0.0 otherwise; the
\* user_answer text and the five strategies play no part.
C7_MultipleChoiceByIndex ==
    (ChoiceDone /\ request.selected_option # <<>>
                /\ IntOfStr(request.correct_answer) # <<>>) =>
        /\ response # <<>>
        /\ response[1].is_correct
             = (request.selected_option[1] = IntOfStr(request.correct_answer)[1])
        /\ response[1].confidence = (IF response[1].is_correct THEN 100 ELSE 0)
        /\ response[1].explanation.name = ""
        /\ response[1].error_message = <<>>

\* the user_answer text equals the reference text, so every strategy would
\* match, yet the selection is wrong and the verdict incorrect
C7_Witness ==
    /\ ChoiceDone
    /\ request.selected_option = <<11>>
    /\ request.user_answer = request.correct_answer
    /\ Matching = 1..5
    /\ ~response[1].is_correct
    /\ response[1].confidence = 0

\* the selection is right although the user_answer text matches nothing
C7_WitnessCorrect ==
    /\ ChoiceDone
    /\ request.selected_option = <<11>>
    /\ IntOfStr(request.correct_answer) = <<11>>
    /\ request.correct_answer # <<"1", "1">>
    /\ Matching = {}
    /\ response[1].is_correct
    /\ response[1].confidence = 100

\* C8 (as claimed): every multiple-choice request whose reference is not an
\* integer gets an error verdict: incorrect, with a non-null error_message.
C8_InvalidReferenceAlwaysError ==
    (ChoiceDone /\ IntOfStr(request.correct_answer) = <<>>) =>
        /\ response # <<>>
        /\ ~response[1].is_correct
        /\ response[1].error_message # <<>>

\* C8 (amended): every multiple-choice request with a selected option whose
\* reference is not an integer gets an error verdict: incorrect, confidence
\* 0.0, the explanation "Invalid correct_answer format" and a non-null
\* error_message.
C8_InvalidReferenceError ==
    (ChoiceDone /\ request.selected_option # <<>>
                /\ IntOfStr(request.correct_answer) = <<>>) =>
        /\ response # <<>>
        /\ ~response[1].is_correct
        /\ response[1].confidence = 0
        /\ response[1].explanation.text = "Invalid correct_answer format"
        /\ response[1].error_message # <<>>

C8_Witness ==
    /\ ChoiceDone
    /\ request.selected_option # <<>>
    /\ IntOfStr(request.correct_answer) = <<>>
    /\ request.correct_answer # <<>>
    /\ response[1].error_message = <<"Invalid correct_answer format">>

\* C9: no exception leaves check_answer: the caller always gets a response,
\* and an exception raised in the body of the handler becomes the verdict
\* incorrect, confidence 0.0, "Validation error", with the exception's text
\* as error_message.
C9_NoExceptionEscapes ==
    AnswerDone =>
        /\ escaped = <<>>
        /\ response # <<>>
        /\ FaultAt(fault, "body") =>
             response = << AnswerCheckResponse(FALSE, 0,
                             Explanation("Validation error", "", <<>>),
                             <<fault.exc.text>>) >>

C9_Witness ==
    /\ AnswerDone
    /\ FaultAt(fault, "body")
    /\ fault.exc.cls = "RuntimeError"
    /\ escaped = <<>>
    /\ response[1].explanation.text = "Validation error"
    /\ response[1].error_message = <<"boom">>

\* what the parser makes of the two normalised expressions
ParserUser == sympify(TranslateMacros(StripDollar(Strip(locals.user_expr))), fault)
ParserReference == sympify(TranslateMacros(StripDollar(Strip(locals.corr_expr))), fault)
ParsedUser == latex_to_sympy(locals.user_expr, fault)
ParsedReference == latex_to_sympy(locals.corr_expr, fault)
Absent == ParsedUser.val = <<>> \/ ParsedReference.val = <<>>

\* the try of the k-th strategy
TryOf(k) ==
    CASE k = 2 -> numeric_body(locals.user_expr, locals.corr_expr, fault)
      [] k = 3 -> symbolic_body(locals.user_expr, locals.corr_expr, fault)
      [] k = 4 -> algebraic_body(locals.user_expr, locals.corr_expr, fault)

\* C10: parse never raises and is absent whenever the parser raised; and
\* when a side is absent or an evaluation step raises, each of numeric,
\* symbolic and algebraic reports not-matched instead of raising.
C10_FailuresAreLocal ==
    (ShortDone /\ ~FaultAt(fault, "body")) =>
        /\ ~ParsedUser.raised /\ ~ParsedReference.raised
        /\ ParserUser.raised => ParsedUser.val = <<>>
        /\ ParserReference.raised => ParsedReference.val = <<>>
        /\ \A k \in 2..4 :
             /\ ~locals.strategies[k].ok.raised
             /\ (Absent \/ TryOf(k).raised) => ~locals.strategies[k].ok.val

\* both sides parse and are equal, the numeric evaluation raises, and numeric
\* reports not-matched while symbolic matches
C10_Witness ==
    /\ ShortDone
    /\ ~Absent
    /\ TryOf(2).raised
    /\ ~locals.strategies[2].ok.val
    /\ locals.strategies[3].ok.val
    /\ response[1].is_correct

\* one side is absent because the parser raised, and no strategy but the
\* textual one can match
C10_WitnessAbsent ==
    /\ ShortDone
    /\ fault = NoFault
    /\ ParserUser.raised
    /\ ~ParserReference.raised
    /\ \A k \in 2..4 : ~locals.strategies[k].ok.val
    /\ ~response[1].is_correct

\* C11: a normalised candidate that cannot be parsed, contains no '=' and
\* differs textually from the normalised reference gets the ordinary
\* incorrect verdict: is_correct false, confidence 0.0, and no exception was
\* raised (nothing escaped and the verdict is not the error verdict).
C11_UnparseableIncorrect ==
    (/\ ShortDone
     /\ latex_to_sympy(NormalUser, fault).val = <<>>
     /\ ~HasEq(NormalUser)
     /\ NormalUser # NormalReference) =>
        /\ escaped = <<>>
        /\ response # <<>>
        /\ ~response[1].is_correct
        /\ response[1].confidence = 0
        /\ response[1].error_message = <<>>
        /\ response[1].explanation.text = "Answer is incorrect. Expected {}, got {}"

\* an unparseable candidate against a reference that parses
C11_Witness ==
    /\ ShortDone
    /\ NormalUser # <<>>
    /\ latex_to_sympy(NormalUser, fault).val = <<>>
    /\ ~HasEq(NormalUser)
    /\ latex_to_sympy(NormalReference, fault).val # <<>>
    /\ ~response[1].is_correct

\* an unparseable candidate against an unparseable reference, an equation,
\* for which the right-hand-side retry is made
C11_WitnessBothAbsent ==
    /\ ShortDone
    /\ latex_to_sympy(NormalUser, fault).val = <<>>
    /\ ~HasEq(NormalUser)
    /\ HasEq(NormalReference)
    /\ latex_to_sympy(NormalReference, fault).val = <<>>
    /\ ~response[1].is_correct

\* Symbolic(a, b) as the strategy reports it
Symbolic(a, b) == check_symbolic_equivalence(a, b, fault).val

\* C12 (as claimed): rhs_equiv on (a, b) matches iff Symbolic(a, b), or b
\* contains '=' and Symbolic(a, text of b after its first '='), or a contains
\* '=' while b does not and Symbolic(text of a after its first '=', b); the
\* retry on b's right-hand side is made whenever b contains '='.
C12_RhsRetryWheneverReferenceHasEq ==
    ShortDone =>
        locals.strategies[5].ok.val =
            \/ Symbolic(locals.user_expr, locals.corr_expr)
            \/ HasEq(locals.corr_expr)
                 /\ Symbolic(locals.user_expr, RhsOf(locals.corr_expr))
            \/ HasEq(locals.user_expr) /\ ~HasEq(locals.corr_expr)
                 /\ Symbolic(RhsOf(locals.user_expr), locals.corr_expr)

\* The rule are_equivalent follows instead: the retry on b's right-hand side
\* is made only when a contains no '='; when both contain '=' no retry is
\* made.
RhsRetryOnlyWithoutEqInCandidate ==
    ShortDone =>
        /\ ~locals.strategies[5].ok.raised
        /\ locals.strategies[5].ok.val =
            \/ Symbolic(locals.user_expr, locals.corr_expr)
            \/ HasEq(locals.corr_expr) /\ ~HasEq(locals.user_expr)
                 /\ Symbolic(locals.user_expr, RhsOf(locals.corr_expr))
            \/ HasEq(locals.user_expr) /\ ~HasEq(locals.corr_expr)
                 /\ Symbolic(RhsOf(locals.user_expr), locals.corr_expr)

\* both sides contain '=', the candidate equals the reference's right-hand
\* side symbolically, and rhs_equiv reports no match
RhsRetrySkipped ==
    /\ ShortDone
    /\ HasEq(locals.user_expr) /\ HasEq(locals.corr_expr)
    /\ Symbolic(locals.user_expr, RhsOf(locals.corr_expr))
    /\ ~locals.strategies[5].ok.val
    /\ ~response[1].is_correct

\* the retry on the candidate's right-hand side decides
RhsRetryViaUser ==
    /\ ShortDone
    /\ HasEq(locals.user_expr) /\ ~HasEq(locals.corr_expr)
    /\ ~Symbolic(locals.user_expr, locals.corr_expr)
    /\ locals.strategies[5].ok.val
    /\ response[1].confidence = 95

IsSymbolic(p) == p # <<>> /\ ~IsRel(p[1]) /\ DOMAIN p[1].coef # {}

\* C14 (as claimed): a candidate and a reference that differ textually but
\* are equal after expansion (expressions in a variable, as (x+1)^2 against
\* x^2+2x+1) get a correct verdict attributed to the algebraic strategy, with
\* confidence 0.7.
C14_ExpansionIsAlgebraic ==
    (/\ ShortDone
     /\ locals.user_expr # locals.corr_expr
     /\ IsSymbolic(ParsedUser.val) /\ IsSymbolic(ParsedReference.val)
     /\ equals(expand(ParsedUser.val[1]), expand(ParsedReference.val[1]))) =>
        /\ response[1].is_correct
        /\ response[1].explanation.name = "algebraic"
        /\ response[1].confidence = 70

\* C15: however concurrent check_answer calls interleave, a finished call
\* holds the verdict its request gets when run alone, and a call that has
\* returned leaves nothing behind: its frame is gone and no other state of
\* the server has changed.
C15_CallsShareNoState ==
    /\ \A i \in Tasks :
         /\ inflight[i].pc = "done" =>
              inflight[i].response = check_answer(inflight[i].request, NoFault).val
         /\ inflight[i].pc = "idle" => inflight[i] = NoTask
    /\ <<pc, call, request, fault, locals, response, escaped>>
         = <<"idle", NoCall, NoRequest, NoFault, NoLocals, <<>>, <<>>>>

\* a call has finished with a correct verdict while another call, with a
\* request whose verdict is incorrect, is between normalisation and decision
C15_Witness ==
    \E i, j \in Tasks :
        /\ i < j
        /\ inflight[i].pc = "done"
        /\ inflight[i].locals.strategies # <<>>
        /\ inflight[i].response[1].is_correct
        /\ inflight[j].pc = "normalised"
        /\ ~check_answer(inflight[j].request, NoFault).val[1].is_correct

\* C16: every verdict check_answer returns has a confidence among 0.0, 0.7,
\* 0.8, 0.9, 0.95, 1.0; is_correct is true iff the confidence is positive;
\* and a non-null error_message comes only with is_correct false and
\* confidence 0.0.
C16_VerdictWellFormed ==
    (AnswerDone /\ response # <<>>) =>
        /\ response[1].confidence \in {0, 70, 80, 90, 95, 100}
        /\ response[1].is_correct = (response[1].confidence > 0)
        /\ response[1].error_message # <<>> =>
             (~response[1].is_correct /\ response[1].confidence = 0)

\* an error verdict from the multiple-choice branch
C16_Witness ==
    /\ AnswerDone
    /\ fault = NoFault
    /\ request.question_type = MULTIPLE_CHOICE
    /\ response[1].error_message # <<>>
    /\ response[1].confidence = 0

\* an error verdict from the outermost handler
C16_WitnessValidation ==
    /\ AnswerDone
    /\ FaultAt(fault, "body")
    /\ response[1].error_message # <<>>
    /\ response[1].confidence = 0

\* a correct verdict with a weight below 1.0
C16_WitnessWeights ==
    /\ ShortDone
    /\ response[1].is_correct
    /\ response[1].confidence = 95

\* C17: an incorrect multiple-choice selection against the integer reference
\* index k gets is_correct false, confidence 0.0 and the explanation
\* "Incorrect. Correct option was <k+1>.", k+1 written in decimal.
C17_CorrectOptionOneBased ==
    (/\ ChoiceDone
     /\ request.selected_option # <<>>
     /\ IntOfStr(request.correct_answer) # <<>>
     /\ request.selected_option # IntOfStr(request.correct_answer)) =>
        /\ ~response[1].is_correct
        /\ response[1].confidence = 0
        /\ response[1].explanation.text = "Incorrect. Correct option was {}."
        /\ Len(response[1].explanation.exprs) = 1
        /\ IsNumber(response[1].explanation.exprs[1])
        /\ DecVal(response[1].explanation.exprs[1])
             = IntOfStr(request.correct_answer)[1] + 1

\* a reference that int() reads as 11 without being the text "11", with
\* option 1 selected: option 12 is named
C17_Witness ==
    /\ ChoiceDone
    /\ request.selected_option = <<1>>
    /\ IntOfStr(request.correct_answer) = <<11>>
    /\ request.correct_answer # <<"1", "1">>
    /\ response[1].explanation.exprs = << <<"1", "2">> >>

\* the normalised expressions that contain the \pm macro
HasPm(s) == Contains(s, PM)
PmSides == {p \in {locals.user_expr, locals.corr_expr} : HasPm(p)}

C18_WitnessRhs ==
    /\ ShortDone
    /\ HasPm(locals.user_expr)
    /\ response[1].is_correct
    /\ response[1].explanation.name = "rhs_equiv"

\* what float(evalf) gives for the two parsed sides
UserFloat == evalf_float(ParsedUser.val[1], fault)
ReferenceFloat == evalf_float(ParsedReference.val[1], fault)
BothNumbers == ~Absent /\ ~UserFloat.raised /\ ~ReferenceFloat.raised

\* C19: the numeric strategy matches iff both sides parse, both evaluate to
\* numbers, and the two floats differ, either way round, by strictly less
\* than 1e-9; a pair whose floats differ by exactly 1e-9 is not matched.
C19_NumericTolerance ==
    (ShortDone /\ fault = NoFault) =>
        /\ locals.strategies[2].ok.val =
              (/\ BothNumbers
               /\ FloatLt(FloatSub(UserFloat.val, ReferenceFloat.val), TOLERANCE)
               /\ FloatLt(FloatSub(ReferenceFloat.val, UserFloat.val), TOLERANCE))
        /\ (BothNumbers /\ FloatAbs(FloatSub(UserFloat.val, ReferenceFloat.val)) = TOLERANCE)
              => ~locals.strategies[2].ok.val

\* a pair whose floats differ by exactly 1e-9, not matched
C19_Witness ==
    /\ ShortDone /\ fault = NoFault /\ BothNumbers
    /\ FloatAbs(FloatSub(UserFloat.val, ReferenceFloat.val)) = TOLERANCE
    /\ ~locals.strategies[2].ok.val
    /\ ~response[1].is_correct

\* two different numbers less than 1e-9 apart, matched by the numeric strategy
C19_WitnessWithin ==
    /\ ShortDone /\ fault = NoFault /\ BothNumbers
    /\ UserFloat.val # ReferenceFloat.val
    /\ locals.strategies[2].ok.val
    /\ response[1].is_correct /\ response[1].explanation.name = "numeric"

\* a side that does not evaluate to a number is not matched
C19_WitnessNoNumber ==
    /\ ShortDone /\ fault = NoFault /\ ~Absent /\ ~BothNumbers
    /\ ~locals.strategies[2].ok.val

\* the three sub-checks of the algebraic strategy, each on its own: a
\* sub-check that raises does not match
ExpandMatch ==
    /\ ~Sympy("expand", expand(ParsedUser.val[1]), fault).raised
    /\ ~Sympy("expand", expand(ParsedReference.val[1]), fault).raised
    /\ equals(expand(ParsedUser.val[1]), expand(ParsedReference.val[1]))
FactorMatch == equals(factor(ParsedUser.val[1]), factor(ParsedReference.val[1]))
SimplifyMatch ==
    /\ ~Difference(ParsedUser.val[1], ParsedReference.val[1], fault).raised
    /\ IsZero(Difference(ParsedUser.val[1], ParsedReference.val[1], fault).val)

\* C20 (as claimed): with both sides parsed, the algebraic strategy matches
\* iff expand(a) equals expand(b), or factor(a) equals factor(b), or
\* simplify(a - b) is zero, each sub-check independent of the others: an
\* exception in an earlier sub-check does not keep a later one from matching.
C20_SubChecksIndependent ==
    (ShortDone /\ ~FaultAt(fault, "body") /\ ~Absent) =>
        locals.strategies[4].ok.val = (ExpandMatch \/ FactorMatch \/ SimplifyMatch)

\* in a run where no sub-check raises before a match, any one suffices
AlgebraicAnyOneSuffices ==
    (ShortDone /\ ~Absent /\ fault.site \notin {"body", "expand"}) =>
        locals.strategies[4].ok.val = (ExpandMatch \/ FactorMatch \/ SimplifyMatch)

\* expand raises, the factored forms are equal, and the strategy reports no match
AlgebraicCutShort ==
    /\ ShortDone /\ ~Absent /\ FaultAt(fault, "expand")
    /\ FactorMatch
    /\ ~locals.strategies[4].ok.val

-----------------------------------------------------------------------------
(* Nested constructs in a fraction *)

\* operands of a fraction: plain ones and one holding a braced macro
FracOperands == {<<"1">>, <<"x">>, SQRT \o <<"{", "x", "}">>}
Frac(A, B) == FRAC \o A \o <<"}", "{">> \o B \o <<"}">>
NestedFracs ==
    {<<A, B>> \in FracOperands \X FracOperands :
        \E o \in {A, B} : Contains(o, <<BACKSLASH>>)}

\* C21 (as claimed): translating \frac{A}{B} where A or B holds a braced
\* macro yields (A')/(B'), with A' and B' the translations of A and B, and
\* the result parses to a SymbolicForm.
C21_NestedFractionResolves ==
    ShortDone =>
        \A p \in NestedFracs :
            locals.user_expr = Frac(p[1], p[2]) =>
                /\ TranslateMacros(locals.user_expr)
                     = TwoGroups(TranslateMacros(p[1]), TranslateMacros(p[2]), FALSE)
                /\ latex_to_sympy(locals.user_expr, fault).val # <<>>

\* The part of C21 that the rewrites do deliver: a macro in the denominator
\* alone is resolved, because the first group of line 33 then ends at the
\* '}' that closes the numerator.
C21_DenominatorNestingResolves ==
    ShortDone =>
        \A p \in NestedFracs :
            (locals.user_expr = Frac(p[1], p[2]) /\ ~Contains(p[1], <<BACKSLASH>>)) =>
                /\ TranslateMacros(locals.user_expr)
                     = TwoGroups(TranslateMacros(p[1]), TranslateMacros(p[2]), FALSE)
                /\ latex_to_sympy(locals.user_expr, fault).val # <<>>

\* a finished comparison of \frac{1}{\sqrt{x}}, and one of \frac{\sqrt{x}}{1}
\* whose fraction was left in place and did not parse
C21_ReachedDenominator ==
    /\ ShortDone
    /\ locals.user_expr = Frac(<<"1">>, SQRT \o <<"{", "x", "}">>)
    /\ latex_to_sympy(locals.user_expr, fault).val # <<>>
C21_ReachedNumerator ==
    /\ ShortDone
    /\ locals.user_expr = Frac(SQRT \o <<"{", "x", "}">>, <<"1">>)
    /\ Contains(TranslateMacros(locals.user_expr), FRAC)
    /\ latex_to_sympy(locals.user_expr, fault).val = <<>>

-----------------------------------------------------------------------------
(* The names the parser accepts *)

\* line 31: the symbols latex_to_sympy creates, which it hands to nothing
VariableAlphabet == {<<"x">>, <<"y">>, <<"z">>, <<"a">>, <<"b">>, <<"c">>, <<"n">>, <<"i">>}

\* the free variables of a parsed expression
NamesOf(s) ==
    IF IsRel(s)
    THEN {n \in DOMAIN s.lhs.coef \cup DOMAIN s.rhs.coef : IsName(n)}
    ELSE {n \in DOMAIN s.coef : IsName(n)}

\* C22 (as claimed): the parser is restricted to the variable alphabet
\* {x, y, z, a, b, c, n, i}; an expression with any other identifier as a
\* free variable yields absent, so every parsed expression has its free
\* variables in the alphabet.
C22_ParserRestrictedToAlphabet ==
    ShortDone =>
        \A p \in {locals.user_expr, locals.corr_expr} :
            latex_to_sympy(p, fault).val # <<>> =>
                NamesOf(latex_to_sympy(p, fault).val[1]) \subseteq VariableAlphabet

\* finished comparisons of w and of \theta, each parsed to the symbol of
\* that name
C22_ReachedW ==
    /\ ShortDone
    /\ locals.user_expr = <<"w">>
    /\ latex_to_sympy(locals.user_expr, fault).val = <<Form(0, [n \in {<<"w">>} |-> 1])>>
C22_ReachedTheta ==
    /\ ShortDone
    /\ locals.user_expr = <<BACKSLASH, "t", "h", "e", "t", "a">>
    /\ latex_to_sympy(locals.user_expr, fault).val
         = <<Form(0, [n \in {<<"t", "h", "e", "t", "a">>} |-> 1])>>

-----------------------------------------------------------------------------
(* Evaluation of the strategies before the verdict *)

\* the response is a verdict of the comparison, not the report of an error
IsVerdict == response # <<>> /\ response[1].error_message = <<>>

\* C23: in a short-answer comparison all five strategy predicates are
\* evaluated before the verdict is chosen, also when an earlier one matched:
\* a verdict is returned only after exact-text, numeric, symbolic, algebraic
\* and equation-RHS evaluation have each terminated with their result.
C23_AllStrategiesEvaluated ==
    (ShortDone /\ IsVerdict) =>
        /\ Len(locals.strategies) = 5
        /\ \A k \in 1..5 :
            /\ locals.strategies[k].name = StrategyNames[k]
            /\ ~locals.strategies[k].ok.raised
            /\ locals.strategies[k].ok.val = Reports(k)

\* exact text matched and decided the verdict, and the four later strategies
\* were evaluated all the same: symbolic and rhs_equiv matched, numeric did not
C23_Witness ==
    /\ ShortDone /\ IsVerdict
    /\ locals.strategies[1].ok.val
    /\ response[1].confidence = CONF_LATEX_EXACT
    /\ Len(locals.strategies) = 5
    /\ ~locals.strategies[2].ok.val
    /\ locals.strategies[3].ok.val
    /\ locals.strategies[5].ok.val

\* in the task form of the handler a short-answer response exists only
\* after Compare has evaluated the five strategies
C23_ResponseAfterCompare ==
    \A i \in Tasks :
        (inflight[i].request.question_type = SHORT_ANSWER /\ inflight[i].response # <<>>)
            => Len(inflight[i].locals.strategies) = 5

-----------------------------------------------------------------------------
(* The equation-RHS strategy after the symbolic one *)

\* C24: whenever the symbolic strategy matches a pair the equation-RHS
\* strategy matches it too; so a verdict of confidence 0.95 occurs only when
\* exact-text, numeric, symbolic and algebraic all failed and exactly one of
\* the two normalized inputs contains '='.
C24_RhsExtendsSymbolic ==
    (ShortDone /\ IsVerdict) =>
        /\ Reports(3) => Reports(5)
        /\ (response[1].is_correct /\ response[1].confidence = CONF_RHS_EQUIV) =>
              /\ \A k \in 1..4 : ~Reports(k)
              /\ HasEq(NormalUser) # HasEq(NormalReference)

\* a verdict of confidence 0.95: the reference is an equation, the user's
\* answer is not, and only rhs_equiv matched
C24_Witness ==
    /\ ShortDone /\ IsVerdict
    /\ response[1].is_correct
    /\ response[1].confidence = CONF_RHS_EQUIV
    /\ Matching = {5}
    /\ HasEq(NormalReference) /\ ~HasEq(NormalUser)

\* symbolic and rhs_equiv both match a pair that is not the same text
C24_WitnessBoth ==
    /\ ShortDone /\ IsVerdict
    /\ {3, 5} \subseteq Matching
    /\ 1 \notin Matching

-----------------------------------------------------------------------------
(* Multiple choice without a selection *)

\* C25: a multiple-choice request with no selected option returns
\* is_correct false, confidence 0.0, the explanation 'No option selected' and
\* no error_message, whatever the reference answer is and without parsing it.
C25_NoSelection ==
    (ChoiceDone /\ request.selected_option = <<>>) =>
        /\ escaped = <<>>
        /\ response = << AnswerCheckResponse(FALSE, 0,
                            Explanation("No option selected", "", <<>>), <<>>) >>

\* no option is selected and the reference is not an integer
C25_Witness ==
    /\ ChoiceDone
    /\ request.selected_option = <<>>
    /\ IntOfStr(request.correct_answer) = <<>>
    /\ response[1].explanation.text = "No option selected"
    /\ response[1].error_message = <<>>

-----------------------------------------------------------------------------
(* The weekly quota under concurrent requests *)

\* the stored count and limit of the user
Used == subscriptions[1].prompts_used_this_week
Limit == subscriptions[1].max_prompts_per_week

\* the jobs of the user that were answered with generated content
Generated ==
    {j \in Jobs : jobs[j].user # <<>> /\ jobs[j].llm /\ jobs[j].status = OK}

\* C26 (as claimed): prompts_used_this_week never exceeds
\* max_prompts_per_week in any reachable state, also when several requests
\* of the user interleave.
C26_QuotaNeverExceeded ==
    subscriptions # <<>> => Used <= Limit

\* what does hold: every job that counts was admitted below the limit, so
\* the count passes the limit by less than the number of jobs
C26_OvershootBounded ==
    subscriptions # <<>> => Used <= Limit + MaxJobs - 1

\* two jobs were admitted at one below the limit and each counted itself
C26_Exceeded ==
    /\ subscriptions # <<>>
    /\ Used = Limit + 1
    /\ \A j \in {1, 2} : jobs[j].counted /\ jobs[j].status = OK

\* C27 (as claimed): after n content generations of the user have completed
\* with no weekly reset in between, prompts_used_this_week has grown by
\* exactly n, also when the calls of increment_usage interleave.
C27_NoIncrementLost ==
    (subscriptions # <<>> /\ ~history.reset) =>
        Used = history.baseline + Cardinality(Generated)

\* what does hold: the count never grows by more than the generations
C27_NeverOvercounted ==
    (subscriptions # <<>> /\ ~history.reset) =>
        Used <= history.baseline + Cardinality(Generated)

\* two generations completed and the count grew by one: both calls of
\* increment_usage read the same count
C27_Lost ==
    /\ subscriptions # <<>> /\ ~history.reset
    /\ Cardinality(Generated) = 2
    /\ Used = history.baseline + 1
    /\ jobs[1].subscription = jobs[2].subscription

-----------------------------------------------------------------------------
(* Usage gating before all work *)

\* the check of job j found the user at or above the limit
AtLimit(j) ==
    /\ jobs[j].usage_limit # <<>>
    /\ jobs[j].usage_limit[1].used_prompts >= jobs[j].usage_limit[1].max_prompts

C28_WitnessAnonymous ==
    \E j \in Jobs :
        /\ jobs[j].user = <<>> /\ jobs[j].llm /\ jobs[j].status = OK
        /\ subscriptions # <<>> /\ Used >= Limit

\* the stored count is never touched by a step of a request without a user
C28_AnonymousLeavesCount ==
    [][\A j \in Jobs :
          (jobs[j].user = <<>> /\ jobs'[j] # jobs[j] /\ jobs[j].pc # "idle")
              => subscriptions' = subscriptions]_vars

-----------------------------------------------------------------------------
(* The weekly reset *)

\* the stored week_start_date is a time, a week or more before now
WeekElapsed ==
    /\ subscriptions[1].week_start_date.zone \in {"+00:00", "Z", ""}
    /\ now - subscriptions[1].week_start_date.day >= WEEK

\* the stored week_start_date is a text that is no time
Unparsable == subscriptions[1].week_start_date.zone = "?"

\* job j is in get_or_create_subscription, at its select or at the update
\* of a reset, and takes the step
Selects(j) ==
    /\ jobs[j].pc \in {"gate", "usage"} /\ jobs'[j] # jobs[j]
    /\ service_supabase /\ subscriptions # <<>>
Resets(j) == jobs[j].pc \in {"gate_reset", "usage_reset"} /\ jobs'[j] # jobs[j]

C29_WitnessUnchanged ==
    \E j \in Jobs :
        /\ ~history.reset /\ now = WEEK - 1
        /\ jobs[j].usage_limit # <<>>
        /\ jobs[j].subscription = subscriptions
        /\ subscriptions[1].week_start_date = DateText(0, "Z")
        /\ Used = history.baseline

\* a call has reset a row whose date did not parse, six days into the week
C29_WitnessUnparsable ==
    \E j \in Jobs :
        /\ history.reset
        /\ jobs[j].subscription = subscriptions
        /\ subscriptions[1] = Subscription(DEFAULT_MAX, 0, DateText(WEEK - 1, "+00:00"))

-----------------------------------------------------------------------------
(* Cache hits and the quota *)

\* the content stored under each key
Contents(table) == [k \in DOMAIN table |-> table[k].content]

\* the keys the topics and courses of the requests normalize to
NormalKeys == { << <<"a", " ", "b">>, <<"c">> >>, << <<"a", "b">>, <<"c">> >> }

\* job j serves generate_content and takes the step
Steps(j) == jobs[j].endpoint = "generate_content" /\ jobs'[j] # jobs[j]

C30_HitOrGeneration ==
    \A j \in Jobs :
        /\ jobs[j].cached # <<>> =>
              ~jobs[j].llm /\ ~jobs[j].saved /\ ~jobs[j].counted /\ jobs[j].content = <<>>
        /\ (jobs[j].saved \/ jobs[j].counted) =>
              jobs[j].llm /\ jobs[j].content = <<j>> /\ jobs[j].cached = <<>>
        /\ jobs[j].counted => jobs[j].saved

====
